---- MODULE Spec2Model ----
(***************************************************************************)
(* Model of the BobbiCussion render-and-export pipeline:                   *)
(*   lib/audio-normalize.ts, lib/ptWavExport.ts, lib/wav-encode.ts, the    *)
(*   handlers of components/BobbiCussion.tsx (presets, tweaks, randomize,  *)
(*   AI generation, auto-trigger, export) and what generateModularSound    *)
(*   (components/ModularSynthEngine.tsx) derives from its parameters,      *)
(*   patches and schedules.                                                *)
(*                                                                         *)
(* Numbers.  A float sample is an integer count of micro-units             *)
(* (One = 10^6 stands for 1.0), so the normalizer's silence threshold of   *)
(* 1e-6 is exactly one unit.  A gain is an integer count of milli-units    *)
(* (GainOne = 1000 stands for 1.0).  A level in dB is given in tenths of a *)
(* dB.  Products are split so that every intermediate value fits TLC's     *)
(* 32-bit integers.  The rounding of a Float32Array store (2^-24 relative) *)
(* is below the micro-unit and is the identity at this resolution.         *)
(***************************************************************************)
EXTENDS Integers, Sequences, FiniteSets, TLC

VARIABLES
    \* ---- normalizeMonoBuffer (lib/audio-normalize.ts)
    npc,        \* "call" before the call, "done" after it
    monoIn,     \* the buffer as it was handed to normalizeMonoBuffer
    mono,       \* the buffer itself (normalized in place)
    nOpts,      \* {targetRmsDBFS, limiterThresholdDBFS, maxGainDB}
    nResult,    \* the returned {applied, peakBefore, peakAfter, gain}
    \* ---- quantize, encode, validate (lib/ptWavExport.ts, lib/wav-encode.ts)
    cpc,        \* "input", "quantized", "encoded", "validated"
    floatIn,    \* the float samples to quantize
    reqRate,    \* the requested sample rate
    bitDepth,   \* the requested bit depth: 8 or 16 (0 before the choice)
    pcm,        \* the quantized samples (Uint8Array or Int16Array)
    wav,        \* the encoded file, a sequence of bytes
    vReport,    \* the validator's {valid, errors, stats}
    \* ---- linearResampleMono (lib/ptWavExport.ts)
    rpc,        \* "call" before the call, "done" after it
    rsInput,    \* the input buffer
    srcRate,    \* the source rate
    dstRate,    \* the target rate
    rsOut,      \* the returned buffer
    rsReads,    \* the indices of input (0-based) the call read
    \* ---- the BobbiCussion component (components/BobbiCussion.tsx)
    selectedPreset, \* useState: the selected preset (its index in DEMO_PRESETS)
    synthParams,    \* useState: the current parameters
    sampleLength,   \* useState: the export's sample length
    isExporting,    \* useState: an export is running
    ctxSampleRate,  \* audioContextRef.current.sampleRate
    exportRun,      \* the latest exportWav call: where it is and what it holds
    inFlight,       \* exportWav calls between setIsExporting(true) and finally
    \* ---- generateModularSound (components/ModularSynthEngine.tsx)
    gpc,            \* "call" before the call, "done" after it
    gParams,        \* synthParams, as handed to the call
    gCategory,      \* selectedPreset.category
    gSampleRate,    \* ctx.sampleRate
    gOut,           \* what the call derived and scheduled, and how it ended
    \* ---- exportPTWavV2, exportStandardWav and the conditioning of exportWav
    xpc,            \* "call" before the call, "returned" or "threw" after it
    xFn,            \* the export path that ran
    xHeap,          \* the Float32Arrays that exist: xHeap[r] is the array r
    xInput,         \* the caller's array (its index in xHeap)
    xInputBefore,   \* the caller's samples before the call
    xSrcRate,       \* srcSampleRate
    xStages,        \* the conditioning stages the call ran, in order
    xBytes,         \* the encoded file the call returned
    xTrace,         \* the arrays the call held after removeDC and before the fade
    \* components/BobbiCussion.tsx: presets, AI generation and auto-trigger
    presetStore,    \* DEMO_PRESETS[i].parameters, the object each preset holds
    isGenerating,   \* useState isGenerating
    aiRun,          \* the handleAiGenerate call awaiting its delay
    timer,          \* the pending setTimeout(() => generateSound(), ...)
    lastAuto,       \* the generateModularSound call the last such timer made
    isPlaying       \* useState isPlaying

normVars == <<npc, monoIn, mono, nOpts, nResult>>
codecVars == <<cpc, floatIn, reqRate, bitDepth, pcm, wav, vReport>>
resampleVars == <<rpc, rsInput, srcRate, dstRate, rsOut, rsReads>>
uiVars == <<selectedPreset, synthParams, sampleLength, isExporting, ctxSampleRate, exportRun,
           inFlight>>
engineVars == <<gpc, gParams, gCategory, gSampleRate, gOut>>
exportVars == <<xpc, xFn, xHeap, xInput, xInputBefore, xSrcRate, xStages, xBytes,
               xTrace>>
soundVars == <<presetStore, isGenerating, aiRun, timer, lastAuto, isPlaying>>
vars == <<npc, monoIn, mono, nOpts, nResult,
          cpc, floatIn, reqRate, bitDepth, pcm, wav, vReport,
          rpc, rsInput, srcRate, dstRate, rsOut, rsReads,
          selectedPreset, synthParams, sampleLength, isExporting, ctxSampleRate, exportRun,
          inFlight,
          gpc, gParams, gCategory, gSampleRate, gOut,
          xpc, xFn, xHeap, xInput, xInputBefore, xSrcRate, xStages, xBytes, xTrace,
          presetStore, isGenerating, aiRun, timer, lastAuto, isPlaying>>

----------------------------------------------------------------------------
(* Bounds of the model *)

\* longest sample buffer
MaxLen == 3
\* longest buffer that is quantized and encoded
MaxPcmLen == 2
\* Math.random() returns k / RandDen for a k in 0..RandDen-1
RandDen == 100
\* samples of the impulse buffer that is exported
ImpulseLen == 20

----------------------------------------------------------------------------
(* Units and arithmetic helpers *)

\* 1.0 as a sample value (micro-units)
One == 1000 * 1000
\* 1.0 as a gain (milli-units)
GainOne == 10 * 100

Abs(x) == IF x < 0 THEN -x ELSE x
Sign(x) == IF x > 0 THEN 1 ELSE IF x < 0 THEN -1 ELSE 0
Min(a, b) == IF a < b THEN a ELSE b
Max(a, b) == IF a > b THEN a ELSE b

RECURSIVE isqrtIter(_, _, _)
isqrtIter(n, lo, hi) ==
    IF lo >= hi THEN lo
    ELSE LET mid == (lo + hi + 1) \div 2
         IN  IF mid * mid <= n THEN isqrtIter(n, mid, hi)
             ELSE isqrtIter(n, lo, mid - 1)
\* Math.sqrt, rounded down to a whole unit
isqrt(n) == isqrtIter(n, 0, 46340)

\* x * gain for a sample x (micro) and a gain (milli), to the nearest
\* micro-unit; the product is split so that it fits 32 bits
MulGain(x, gain) ==
    LET a  == Abs(x)
        gh == gain \div GainOne
        gl == gain % GainOne
    IN  Sign(x) * (a * gh + (a * gl + (GainOne \div 2)) \div GainOne)

----------------------------------------------------------------------------
(* lib/audio-normalize.ts *)

\* dBToLinear = 10^(db/20), tabulated to the nearest micro-unit for the
\* levels the model uses (db in tenths of a dB)
dBToLinear(db) ==
    CASE db = -400 -> 10000
      [] db = -200 -> 100000
      [] db = -140 -> 199526
      [] db = -120 -> 251189
      [] db = -10  -> 891251
      [] db = -5   -> 944061
      [] db = 0    -> 1000000
      [] db = 200  -> 10000000
      [] db = 240  -> 15848932

RECURSIVE getAbsPeakFrom(_, _, _)
getAbsPeakFrom(buf, i, peak) ==
    IF i > Len(buf) THEN peak
    ELSE getAbsPeakFrom(buf, i + 1, IF Abs(buf[i]) > peak THEN Abs(buf[i]) ELSE peak)
getAbsPeak(buf) == getAbsPeakFrom(buf, 1, 0)

\* The scale at which getRms accumulates the squares: the smallest power of
\* ten for which the sum of n squares of peak fits 32 bits (a double holds
\* the sum at full scale; the model keeps 4 or more significant digits).
RmsScale(peak, n) ==
    LET cap == isqrt(2147483647 \div n)
    IN  IF peak <= cap THEN 1
        ELSE IF peak \div 10 <= cap THEN 10
        ELSE IF peak \div 100 <= cap THEN 100
        ELSE 1000

RECURSIVE sumSquaresFrom(_, _, _, _)
sumSquaresFrom(buf, s, i, sum) ==
    IF i > Len(buf) THEN sum
    ELSE sumSquaresFrom(buf, s, i + 1, sum + (Abs(buf[i]) \div s) * (Abs(buf[i]) \div s))

\* getRms = sqrt(sum / length).  On an empty buffer it is NaN, which the
\* caller's `rms || 1e-12` replaces exactly as it replaces 0.
getRms(buf) ==
    IF Len(buf) = 0 THEN 0
    ELSE LET s == RmsScale(getAbsPeak(buf), Len(buf))
         IN  s * isqrt(sumSquaresFrom(buf, s, 1, 0) \div Len(buf))

\* default option of normalizeMonoBuffer: 1e-6
silenceThreshold == 1

\* the early return's condition
isSilent_rms(buf) == Len(buf) > 0 /\ getRms(buf) < silenceThreshold
isSilent_flipped(buf) == getAbsPeak(buf) > silenceThreshold
isSilent(buf) == getAbsPeak(buf) < silenceThreshold

\* gain = min(targetRmsLin / (rms || 1e-12), maxGainLin), in milli-units
normGain(rms, targetRmsDBFS, maxGainDB) ==
    IF rms = 0 THEN dBToLinear(maxGainDB) \div GainOne
    ELSE Min((dBToLinear(targetRmsDBFS) * GainOne) \div rms,
             dBToLinear(maxGainDB) \div GainOne)

\* the brick-wall limiter applied to one gained sample
limit_none(val, limiterThresholdLin) == val
limit(val, limiterThresholdLin) ==
    IF Abs(val) > limiterThresholdLin THEN Sign(val) * limiterThresholdLin
    ELSE val

\* normalizeMonoBuffer: the buffer after the call and the returned record
normalizeMonoBuffer(buf, opts) ==
    LET peakBefore == getAbsPeak(buf)
    IN  IF isSilent(buf)
        THEN [buf |-> buf,
              res |-> [applied |-> FALSE, peakBefore |-> peakBefore,
                       peakAfter |-> peakBefore, gain |-> GainOne]]
        ELSE LET rms  == getRms(buf)
                 gain == normGain(rms, opts.targetRmsDBFS, opts.maxGainDB)
                 thr  == dBToLinear(opts.limiterThresholdDBFS)
                 out  == [i \in 1..Len(buf) |-> limit(MulGain(buf[i], gain), thr)]
             IN  [buf |-> out,
                  res |-> [applied |-> TRUE, peakBefore |-> peakBefore,
                           peakAfter |-> getAbsPeak(out), gain |-> gain]]

----------------------------------------------------------------------------
(* lib/ptWavExport.ts and lib/audio-normalize.ts: dither and quantization *)

\* a / b to the nearest integer (b > 0)
RoundDiv(a, b) == Sign(a) * ((2 * Abs(a) + b) \div (2 * b))

\* floor(a * k / One) for 0 <= a and 0 <= k < 10^6, split to fit 32 bits
ScaleMul(a, k) == ((a * (k \div 1000)) + ((a * (k % 1000)) \div 1000)) \div 1000

\* 2^n
RECURSIVE Pow2(_)
Pow2(n) == IF n <= 0 THEN 1 ELSE 2 * Pow2(n - 1)

\* the values Math.random() takes in the model: 0, the middle and the
\* largest value below 1 (numerators over RandDen)
Draws == {0, RandDen \div 2, RandDen - 1}
DrawPairs(n) == [1..n -> Draws \X Draws]

\* lsbNorm = 1 / 2^(bits-1): its denominator
lsbDen_coarse(bits) == Pow2(bits - 3)
lsbDen(bits) == Pow2(bits - 1)

\* tpdfDither: sample + (Math.random() + Math.random() - 1) * lsb, with
\* lsb = 1 / den and the two draws r = <<k1, k2>>
tpdfDither(sample, den, r) ==
    sample + RoundDiv((r[1] + r[2] - RandDen) * One, RandDen * den)

\* the clamp of floatTo8BitUnsignedPCM
clamp8(x) == Max(-One, Min(One, x))

\* storing a number into a Uint8Array: modulo 2^8
ToUint8(u) == u % 256

\* floatTo8BitUnsignedPCM: clamp, map [-1..1] -> [0..255] with Math.round,
\* clamp again, store
floatTo8BitUnsignedPCM(input) ==
    [i \in 1..Len(input) |->
        LET s == clamp8(input[i])
            u == ((s + One) * 255 + One) \div (2 * One)
        IN  ToUint8(Max(0, Min(255, u)))]

\* applyDitherThenQuantize(input, bits) with the random draws rnd
applyDitherThenQuantize(input, bits, rnd) ==
    floatTo8BitUnsignedPCM(
        [i \in 1..Len(input) |-> tpdfDither(input[i], lsbDen(bits), rnd[i])])

\* the clip of floatTo16BitPCMWithTPDF
clip16_none(s) == s
clip16(s) == IF s > One THEN One ELSE IF s < -One THEN -One ELSE s

\* storing a number into an Int16Array: truncate, then modulo 2^16
ToInt16(x) == ((x + 32768) % 65536) - 32768

\* floatTo16BitPCMWithTPDF with the random draws rnd; the product
\* s * 32768 or s * 32767 is truncated toward zero by the store
floatTo16BitPCMWithTPDF(buffer, rnd) ==
    [i \in 1..Len(buffer) |->
        LET dither == RoundDiv((rnd[i][1] + rnd[i][2] - RandDen) * One, RandDen * 32768)
            s == clip16(buffer[i] + dither)
        IN  ToInt16(IF s < 0 THEN -ScaleMul(-s, 32768) ELSE ScaleMul(s, 32767))]

----------------------------------------------------------------------------
(* lib/ptWavExport.ts and lib/wav-encode.ts: the RIFF/WAVE container *)

\* DataView.setUint32(p, v, true) and setUint16(p, v, true): little-endian
setUint32(v) ==
    <<v % 256, (v \div 256) % 256, (v \div 65536) % 256, (v \div 16777216) % 256>>
setUint16(v) == <<v % 256, (v \div 256) % 256>>
\* DataView.setInt16(offset, v, true): two's complement, little-endian
setInt16(v) == setUint16((v + 65536) % 65536)

\* the four-character tags, as character codes
TagRIFF == <<82, 73, 70, 70>>
TagWAVE == <<87, 65, 86, 69>>
TagFmt  == <<102, 109, 116, 32>>
TagData == <<100, 97, 116, 97>>

\* the RIFF chunk's size field: headerSize - 8 + dataSize
riffSize_whole(dataSize) == 44 + dataSize
riffSize(dataSize) == 44 - 8 + dataSize

\* the 44 header bytes both encoders write
wavHeader_swapped(dataSize, sampleRate, byteRate, blockAlign, bitsPerSample) ==
    TagRIFF \o setUint32(riffSize(dataSize)) \o TagWAVE
    \o TagFmt \o setUint32(16) \o setUint16(1) \o setUint16(1)
    \o setUint32(byteRate) \o setUint32(sampleRate)
    \o setUint16(blockAlign) \o setUint16(bitsPerSample)
    \o TagData \o setUint32(dataSize)
wavHeader(dataSize, sampleRate, byteRate, blockAlign, bitsPerSample) ==
    TagRIFF \o setUint32(riffSize(dataSize)) \o TagWAVE
    \o TagFmt \o setUint32(16) \o setUint16(1) \o setUint16(1)
    \o setUint32(sampleRate) \o setUint32(byteRate)
    \o setUint16(blockAlign) \o setUint16(bitsPerSample)
    \o TagData \o setUint32(dataSize)

\* writeWavU8Mono(pcmU8, sampleRate)
writeWavU8Mono(pcmU8, sampleRate) ==
    LET numChannels == 1
        bitsPerSample == 8
        blockAlign == numChannels * (IF bitsPerSample \div 8 # 0 THEN bitsPerSample \div 8 ELSE 1)
        byteRate == sampleRate * blockAlign
        dataSize == Len(pcmU8)
    IN  wavHeader(dataSize, sampleRate, byteRate, blockAlign, bitsPerSample) \o pcmU8

RECURSIVE int16Bytes(_, _)
int16Bytes(int16, i) ==
    IF i > Len(int16) THEN <<>> ELSE setInt16(int16[i]) \o int16Bytes(int16, i + 1)

\* encodeWavMono16(int16, sampleRate)
encodeWavMono16(int16, sampleRate) ==
    LET numChannels == 1
        bitsPerSample == 16
        byteRate == (sampleRate * numChannels * bitsPerSample) \div 8
        blockAlign == (numChannels * bitsPerSample) \div 8
        dataSize == Len(int16) * 2
    IN  wavHeader(dataSize, sampleRate, byteRate, blockAlign, bitsPerSample)
        \o int16Bytes(int16, 1)

\* DataView.getUint32(at, true) and getUint16(at, true); at is 0-based
getUint32(bytes, at) ==
    bytes[at + 1] + 256 * bytes[at + 2] + 65536 * bytes[at + 3] + 16777216 * bytes[at + 4]
getUint16(bytes, at) == bytes[at + 1] + 256 * bytes[at + 2]
getTag(bytes, at) == <<bytes[at + 1], bytes[at + 2], bytes[at + 3], bytes[at + 4]>>

\* a stats field that was never assigned
Undefined == -1

RECURSIVE countClipped(_, _, _)
countClipped(bytes, from, to) ==
    IF from > to THEN 0
    ELSE (IF bytes[from] = 0 \/ bytes[from] = 255 THEN 1 ELSE 0)
         + countClipped(bytes, from + 1, to)

\* valid: errors.length === 0
isValid_always(errors) == TRUE
isValid(errors) == Len(errors) = 0

\* validatePTWavExport(bytes).  A read past the end of the array throws a
\* RangeError, which the catch turns into a "Validation error" entry; the
\* errors and stats collected before the throw are kept.  stats.duration is
\* dataSize / sampleRate and stats.peakClipping is clipped / dataSize: the
\* model keeps the numerators dataSize and clipped.
validatePTWavExport(bytes) ==
    LET n == Len(bytes)
        has(k) == n >= k
        sampleRate == IF has(28) THEN getUint32(bytes, 24) ELSE Undefined
        dataSize == IF has(44) THEN getUint32(bytes, 40) ELSE Undefined
        hasData == has(44) /\ n >= 44 + dataSize
        clipped == IF hasData THEN countClipped(bytes, 45, 44 + dataSize) ELSE Undefined
        err(c, e) == IF c THEN <<e>> ELSE <<>>
        errors ==
            err(has(4) /\ getTag(bytes, 0) # TagRIFF, "Invalid RIFF header")
            \o err(has(12) /\ getTag(bytes, 8) # TagWAVE, "Invalid WAVE header")
            \o err(has(16) /\ getTag(bytes, 12) # TagFmt, "Invalid fmt chunk")
            \o err(has(22) /\ getUint16(bytes, 20) # 1, "Not PCM format")
            \o err(has(24) /\ getUint16(bytes, 22) # 1, "Not mono")
            \o err(has(28) /\ sampleRate # 22168, "Not 22168 Hz")
            \o err(has(36) /\ getUint16(bytes, 34) # 8, "Not 8-bit")
            \o err(has(40) /\ getTag(bytes, 36) # TagData, "Invalid data chunk")
            \o err(has(44) /\ dataSize * 1000 < 5 * sampleRate, "Duration < 5ms")
            \o err(has(44) /\ dataSize > 10 * sampleRate, "Duration > 10s")
            \o err(hasData /\ clipped * 100 > dataSize, "Peak clipping > 1%")
            \o err(~hasData, "Validation error")
    IN  [valid |-> isValid(errors),
         errors |-> errors,
         stats |-> [channels |-> IF has(24) THEN getUint16(bytes, 22) ELSE Undefined,
                    sampleRate |-> sampleRate,
                    bitsPerSample |-> IF has(36) THEN getUint16(bytes, 34) ELSE Undefined,
                    dataSize |-> dataSize,
                    clipped |-> clipped]]

----------------------------------------------------------------------------
(* lib/ptWavExport.ts: linearResampleMono *)

\* the sample a read outside the array (undefined) turns into
NaN == 0 - 2147483647

RECURSIVE GCD(_, _)
GCD(a, b) == IF b = 0 THEN a ELSE GCD(b, a % b)

\* floor(a * b / c) for a >= 0 and 0 <= b < c, split to fit 32 bits
MulDiv(a, b, c) == (a \div c) * b + ((a % c) * b) \div c

\* the early return of linearResampleMono
sameRate_never(src, dst) == FALSE
sameRate(src, dst) == src = dst

\* outLength = Math.max(1, Math.floor(input.length * ratio)), ratio = dst / src
resampleLength(len, src, dst) == Max(1, (len * dst) \div src)

\* pos after i additions of 1 / ratio, as the exact fraction i * src / dst
\* reduced to lowest terms: <<numerator, denominator>>
resamplePos(i, src, dst) ==
    LET g == GCD(src, dst) IN <<i * (src \div g), dst \div g>>

\* Math.min(idx, input.length - 1): the index that is read (0-based)
readIndex(idx, len) == Min(idx, len - 1)

\* input[k] for a 0-based k; a read outside the array gives undefined,
\* and arithmetic on undefined gives NaN
readSample(input, k) == IF k >= 0 /\ k < Len(input) THEN input[k + 1] ELSE NaN

\* s0 + (s1 - s0) * frac with frac = num / den
interpolate(s0, s1, num, den) ==
    IF s0 = NaN \/ s1 = NaN THEN NaN
    ELSE s0 + Sign(s1 - s0) * MulDiv(Abs(s1 - s0), num, den)

\* linearResampleMono(input, srcRate, dstRate)
linearResampleMono(input, src, dst) ==
    IF sameRate(src, dst) THEN input
    ELSE [i \in 1..resampleLength(Len(input), src, dst) |->
            LET pos == resamplePos(i - 1, src, dst)
                idx == pos[1] \div pos[2]
            IN  interpolate(readSample(input, readIndex(idx, Len(input))),
                            readSample(input, readIndex(idx + 1, Len(input))),
                            pos[1] % pos[2], pos[2])]

\* the indices of input that linearResampleMono reads in its loop
linearResampleReads(input, src, dst) ==
    IF sameRate(src, dst) THEN {}
    ELSE UNION {LET idx == resamplePos(i - 1, src, dst)[1] \div resamplePos(i - 1, src, dst)[2]
                IN  {readIndex(idx, Len(input)), readIndex(idx + 1, Len(input))}
                : i \in 1..resampleLength(Len(input), src, dst)}

----------------------------------------------------------------------------
(* lib/ptWavExport.ts: removeDC, the end fade and the arrays of an export. *)
(* A Float32Array is a cell of the heap, named by its index; a function   *)
(* that writes in place changes the cell it was handed, a function that    *)
(* builds a new array adds a cell.                                         *)

\* x = Math.exp(-2 * Math.PI * fc / sr) with fc = 10 and sr = 48000
hpfX == One - 1308

\* x * v
mulX(v) == Sign(v) * ScaleMul(Abs(v), hpfX)

RECURSIVE sumFrom(_, _)
sumFrom(samples, i) ==
    IF i > Len(samples) THEN 0 ELSE samples[i] + sumFrom(samples, i + 1)

\* the one-pole filter loop of removeDC: y = x * (yPrev + tmp[i] - inPrev);
\* inPrev is read from tmp[i] after y was stored there
RECURSIVE hpf(_, _, _, _)
hpf(tmp, i, yPrev, inPrev) ==
    IF i > Len(tmp) THEN <<>>
    ELSE LET y == mulX(yPrev + tmp[i] - inPrev)
         IN  <<y>> \o hpf(tmp, i + 1, y, y)

\* removeDC(samples): the samples minus their mean, then filtered
removeDC(samples) ==
    LET mean == RoundDiv(sumFrom(samples, 1), Max(1, Len(samples)))
    IN  hpf([i \in 1..Len(samples) |-> samples[i] - mean], 1, 0, 0)

\* the array removeDC writes its result to: tmp = new Float32Array(...)
removeDCInto_input(heap, input) == input
removeDCInto(heap, input) == Len(heap) + 1

\* the heap after buf was written to the array ref
put(heap, ref, buf) ==
    IF ref > Len(heap) THEN Append(heap, buf) ELSE [heap EXCEPT ![ref] = buf]

\* the end fade of exportPTWavV2:
\* fadeSamples = Math.min(length, Math.floor(targetSampleRate * 0.01)) and
\* resampled[length - 1 - i] *= 1 - i / fadeSamples for i < fadeSamples
fadeOut(buf, targetRate) ==
    LET fadeSamples == Min(Len(buf), targetRate \div 100)
    IN  [idx \in 1..Len(buf) |->
            LET i == Len(buf) - idx
            IN  IF i < fadeSamples
                THEN RoundDiv(buf[idx] * (fadeSamples - i), fadeSamples)
                ELSE buf[idx]]

\* no array recorded: the call ran neither removeDC nor the fade
NoTrace == [dcFixed |-> <<>>, resampled |-> <<>>]

\* the options the export paths hand to normalizeMonoBuffer
PTNormalizeOptions ==
    [targetRmsDBFS |-> -120, limiterThresholdDBFS |-> -5, maxGainDB |-> 200]
StandardNormalizeOptions ==
    [targetRmsDBFS |-> -140, limiterThresholdDBFS |-> -10, maxGainDB |-> 240]

\* the arrays and the stages of exportPTWavV2 up to the quantizer
ptConditioning(heap, input, src) ==
    LET dcFixed == removeDCInto(heap, input)
        h1 == put(heap, dcFixed, removeDC(heap[input]))
        h2 == [h1 EXCEPT ![dcFixed] = normalizeMonoBuffer(h1[dcFixed], PTNormalizeOptions).buf]
        resampled == Len(h2) + 1
        h3 == Append(h2, linearResampleMono(h2[dcFixed], src, 22168))
        h4 == [h3 EXCEPT ![resampled] = fadeOut(h3[resampled], 22168)]
    IN  [heap |-> h4, out |-> resampled,
         trace |-> [dcFixed |-> h1[dcFixed], resampled |-> h3[resampled]],
         stages |-> <<"removeDC", "normalize">>
                    \o (IF sameRate(src, 22168) THEN <<>> ELSE <<"resample">>)
                    \o <<"fade">>]

\* the arrays and the stages of exportStandardWav up to the quantizer
standardConditioning(heap, input, src) ==
    LET processed == removeDCInto(heap, input)
        h1 == put(heap, processed, removeDC(heap[input]))
        h2 == [h1 EXCEPT ![processed] =
                  normalizeMonoBuffer(h1[processed], StandardNormalizeOptions).buf]
    IN  IF src # 44100
        THEN [heap |-> Append(h2, linearResampleMono(h2[processed], src, 44100)),
              out |-> Len(h2) + 1,
              trace |-> [dcFixed |-> h1[processed], resampled |-> <<>>],
              stages |-> <<"removeDC", "normalize", "resample">>]
        ELSE [heap |-> h2, out |-> processed,
              trace |-> [dcFixed |-> h1[processed], resampled |-> <<>>],
              stages |-> <<"removeDC", "normalize">>]

\* the arrays and the stages of the component's exportWav between the
\* render and the quantizer: the render is normalized in place
exportWavConditioning(heap, render, format, rate) ==
    LET h1 == [heap EXCEPT ![render] =
                  normalizeMonoBuffer(heap[render], StandardNormalizeOptions).buf]
    IN  IF format = "pt-wav"
        THEN [heap |-> Append(h1, linearResampleMono(h1[render], rate, 22168)),
              out |-> Len(h1) + 1, trace |-> NoTrace,
              stages |-> <<"normalize">>
                         \o (IF sameRate(rate, 22168) THEN <<>> ELSE <<"resample">>)]
        ELSE [heap |-> h1, out |-> render, trace |-> NoTrace, stages |-> <<"normalize">>]

----------------------------------------------------------------------------
(* components/ModularSynthEngine.tsx and components/BobbiCussion.tsx.      *)
(* A parameter in [0,1] is an integer count of hundredths; a duration is   *)
(* in milliseconds.                                                        *)

\* DEMO_PRESETS: id, category and the parameter snapshot of each preset
DEMO_PRESETS ==
    << [id |-> "kick-1", category |-> "drums",
        parameters |->
          [envelopeShape |-> 80, noiseLayer |-> 10, fmAmount |-> 60,
           resonance |-> 30, driveColor |-> 70, crossMod |-> 30, ringMod |-> 10,
           lfoRate |-> 20, waveMorph |-> 30, feedback |-> 20,
           filterRoute |-> 40, sampleHold |-> 10, chaosLevel |-> 10,
           reverbAmount |-> 10, reverbSize |-> 30, delayTime |-> 0,
           delayFeedback |-> 10, grainSize |-> 20, grainDensity |-> 30,
           grainPitch |-> 50, grainPosition |-> 40, matrixDepth |-> 10,
           voltageDrift |-> 5, cvSequencer |-> 20, modWheel |-> 30,
           bitCrusher |-> 0, freqShifter |-> 0, formantFilter |-> 40,
           waveshaperDrive |-> 20]],
       [id |-> "snare-1", category |-> "drums",
        parameters |->
          [envelopeShape |-> 20, noiseLayer |-> 80, fmAmount |-> 30,
           resonance |-> 70, driveColor |-> 40, crossMod |-> 50, ringMod |-> 60,
           lfoRate |-> 70, waveMorph |-> 80, feedback |-> 30,
           filterRoute |-> 60, sampleHold |-> 40, chaosLevel |-> 30,
           reverbAmount |-> 30, reverbSize |-> 40, delayTime |-> 20,
           delayFeedback |-> 30, grainSize |-> 10, grainDensity |-> 60,
           grainPitch |-> 70, grainPosition |-> 30, matrixDepth |-> 40,
           voltageDrift |-> 20, cvSequencer |-> 50, modWheel |-> 60,
           bitCrusher |-> 20, freqShifter |-> 10, formantFilter |-> 80,
           waveshaperDrive |-> 40]],
       [id |-> "hihat-1", category |-> "drums",
        parameters |->
          [envelopeShape |-> 10, noiseLayer |-> 90, fmAmount |-> 20,
           resonance |-> 80, driveColor |-> 20, crossMod |-> 20, ringMod |-> 90,
           lfoRate |-> 90, waveMorph |-> 70, feedback |-> 10,
           filterRoute |-> 80, sampleHold |-> 80, chaosLevel |-> 20,
           reverbAmount |-> 40, reverbSize |-> 60, delayTime |-> 10,
           delayFeedback |-> 20, grainSize |-> 5, grainDensity |-> 90,
           grainPitch |-> 80, grainPosition |-> 90, matrixDepth |-> 30,
           voltageDrift |-> 40, cvSequencer |-> 80, modWheel |-> 70,
           bitCrusher |-> 30, freqShifter |-> 20, formantFilter |-> 90,
           waveshaperDrive |-> 10]],
       [id |-> "fm-blip-1", category |-> "sounds",
        parameters |->
          [envelopeShape |-> 15, noiseLayer |-> 30, fmAmount |-> 90,
           resonance |-> 60, driveColor |-> 50, crossMod |-> 80, ringMod |-> 40,
           lfoRate |-> 60, waveMorph |-> 90, feedback |-> 40,
           filterRoute |-> 30, sampleHold |-> 60, chaosLevel |-> 50,
           reverbAmount |-> 20, reverbSize |-> 70, delayTime |-> 40,
           delayFeedback |-> 50, grainSize |-> 30, grainDensity |-> 40,
           grainPitch |-> 90, grainPosition |-> 20, matrixDepth |-> 70,
           voltageDrift |-> 10, cvSequencer |-> 30, modWheel |-> 80,
           bitCrusher |-> 10, freqShifter |-> 30, formantFilter |-> 60,
           waveshaperDrive |-> 60]],
       [id |-> "metal-hit-1", category |-> "sounds",
        parameters |->
          [envelopeShape |-> 40, noiseLayer |-> 70, fmAmount |-> 50,
           resonance |-> 90, driveColor |-> 80, crossMod |-> 70, ringMod |-> 80,
           lfoRate |-> 30, waveMorph |-> 40, feedback |-> 90,
           filterRoute |-> 90, sampleHold |-> 30, chaosLevel |-> 80,
           reverbAmount |-> 50, reverbSize |-> 80, delayTime |-> 30,
           delayFeedback |-> 40, grainSize |-> 40, grainDensity |-> 20,
           grainPitch |-> 30, grainPosition |-> 60, matrixDepth |-> 80,
           voltageDrift |-> 30, cvSequencer |-> 20, modWheel |-> 40,
           bitCrusher |-> 40, freqShifter |-> 50, formantFilter |-> 30,
           waveshaperDrive |-> 80]],
       [id |-> "noise-burst-1", category |-> "sounds",
        parameters |->
          [envelopeShape |-> 25, noiseLayer |-> 95, fmAmount |-> 10,
           resonance |-> 40, driveColor |-> 60, crossMod |-> 10, ringMod |-> 20,
           lfoRate |-> 80, waveMorph |-> 20, feedback |-> 50,
           filterRoute |-> 20, sampleHold |-> 90, chaosLevel |-> 40,
           reverbAmount |-> 30, reverbSize |-> 50, delayTime |-> 20,
           delayFeedback |-> 30, grainSize |-> 60, grainDensity |-> 80,
           grainPitch |-> 20, grainPosition |-> 80, matrixDepth |-> 20,
           voltageDrift |-> 60, cvSequencer |-> 90, modWheel |-> 20,
           bitCrusher |-> 50, freqShifter |-> 0, formantFilter |-> 20,
           waveshaperDrive |-> 30]],
       [id |-> "granular-texture-1", category |-> "textures",
        parameters |->
          [envelopeShape |-> 60, noiseLayer |-> 40, fmAmount |-> 20,
           resonance |-> 50, driveColor |-> 30, crossMod |-> 30, ringMod |-> 10,
           lfoRate |-> 20, waveMorph |-> 60, feedback |-> 30,
           filterRoute |-> 40, sampleHold |-> 20, chaosLevel |-> 20,
           reverbAmount |-> 60, reverbSize |-> 80, delayTime |-> 50,
           delayFeedback |-> 40, grainSize |-> 80, grainDensity |-> 90,
           grainPitch |-> 60, grainPosition |-> 70, matrixDepth |-> 50,
           voltageDrift |-> 30, cvSequencer |-> 40, modWheel |-> 70,
           bitCrusher |-> 0, freqShifter |-> 20, formantFilter |-> 60,
           waveshaperDrive |-> 20]],
       [id |-> "chaos-generator-1", category |-> "chaos",
        parameters |->
          [envelopeShape |-> 30, noiseLayer |-> 80, fmAmount |-> 70,
           resonance |-> 60, driveColor |-> 90, crossMod |-> 90, ringMod |-> 70,
           lfoRate |-> 80, waveMorph |-> 90, feedback |-> 60,
           filterRoute |-> 70, sampleHold |-> 90, chaosLevel |-> 90,
           reverbAmount |-> 40, reverbSize |-> 60, delayTime |-> 30,
           delayFeedback |-> 70, grainSize |-> 20, grainDensity |-> 70,
           grainPitch |-> 90, grainPosition |-> 40, matrixDepth |-> 90,
           voltageDrift |-> 80, cvSequencer |-> 80, modWheel |-> 90,
           bitCrusher |-> 80, freqShifter |-> 60, formantFilter |-> 40,
           waveshaperDrive |-> 90]] >>

\* defaultParams, which the initial state spreads over the first preset's
defaultParams ==
    [envelopeShape |-> 30, noiseLayer |-> 20, fmAmount |-> 40,
     resonance |-> 50, driveColor |-> 30, crossMod |-> 20, ringMod |-> 10,
     lfoRate |-> 30, waveMorph |-> 50, feedback |-> 10,
     filterRoute |-> 40, sampleHold |-> 20, chaosLevel |-> 10,
     reverbAmount |-> 20, reverbSize |-> 50, delayTime |-> 30,
     delayFeedback |-> 40, grainSize |-> 30, grainDensity |-> 40,
     grainPitch |-> 50, grainPosition |-> 50, matrixDepth |-> 20,
     voltageDrift |-> 10, cvSequencer |-> 30, modWheel |-> 50,
     bitCrusher |-> 0, freqShifter |-> 0, formantFilter |-> 50,
     waveshaperDrive |-> 30]

\* generateModularSound: duration = Math.max(0.1, 0.1 + envelopeShape * 0.5)
\* seconds; the function returns duration * 1000
engineDurationMs(params) == Max(100, 100 + params.envelopeShape * 5)

\* renderAudioToBuffer: bufferLength = customSampleLength ||
\*   Math.floor(Math.max(0.2, 0.1 + envelopeShape * 0.8) * sampleRate);
\* a customSampleLength of 0 (or none) is falsy
renderBufferLength_byDuration(params, customSampleLength, sampleRate) ==
    (Max(200, 100 + params.envelopeShape * 8) * sampleRate) \div 1000
renderBufferLength(params, customSampleLength, sampleRate) ==
    IF customSampleLength # 0 THEN customSampleLength
    ELSE (Max(200, 100 + params.envelopeShape * 8) * sampleRate) \div 1000

\* the sample-length input's onChange:
\* Math.min(65534, Math.max(1, parseInt(value) || 1)); a value that does
\* not parse is given as 0
clampSampleLength(value) == Min(65534, Max(1, IF value # 0 THEN value ELSE 1))

\* the export buttons are rendered with disabled={isExporting}.  A click
\* is a discrete event: React commits the setIsExporting(true) of its
\* handler before the browser dispatches the next click, so the button a
\* click meets shows the state the previous handler left.
exportDisabled_never == FALSE
exportDisabled == isExporting

\* the finally block of exportWav: setIsExporting(false)
finallyIsExporting_kept(current) == current
finallyIsExporting(current) == FALSE

\* the bytes of the file exportWav builds from a render of n samples
exportWavSize(format, n, sampleRate) ==
    IF format = "pt-wav"
    THEN 44 + (IF sameRate(sampleRate, 22168) THEN n ELSE resampleLength(n, sampleRate, 22168))
    ELSE 44 + 2 * n


\* handleRandomizePreset: the [min, max] of every randomized key
ranges(category) ==
    IF category = "drums"
    THEN [envelopeShape |-> <<20, 50>>, noiseLayer |-> <<10, 70>>,
          fmAmount |-> <<10, 60>>, resonance |-> <<20, 70>>,
          driveColor |-> <<10, 60>>, crossMod |-> <<10, 50>>,
          ringMod |-> <<0, 50>>, lfoRate |-> <<10, 40>>,
          waveMorph |-> <<30, 70>>, feedback |-> <<0, 40>>,
          filterRoute |-> <<20, 60>>, sampleHold |-> <<10, 60>>,
          chaosLevel |-> <<0, 30>>, reverbAmount |-> <<0, 40>>,
          reverbSize |-> <<20, 60>>, delayTime |-> <<0, 30>>,
          delayFeedback |-> <<0, 40>>]
    ELSE [envelopeShape |-> <<20, 80>>, noiseLayer |-> <<0, 60>>,
          fmAmount |-> <<0, 70>>, resonance |-> <<10, 80>>,
          driveColor |-> <<0, 70>>, crossMod |-> <<0, 60>>,
          ringMod |-> <<0, 60>>, lfoRate |-> <<0, 60>>,
          waveMorph |-> <<10, 90>>, feedback |-> <<0, 50>>,
          filterRoute |-> <<0, 80>>, sampleHold |-> <<0, 70>>,
          chaosLevel |-> <<0, 40>>, reverbAmount |-> <<0, 70>>,
          reverbSize |-> <<30, 90>>, delayTime |-> <<0, 60>>,
          delayFeedback |-> <<0, 60>>]

\* baseRandom * 0.6 + original * 0.4 with baseRandom = min + Math.random() *
\* (max - min) and Math.random() = k / RandDen, to the nearest hundredth
biasedValue(range, original, k) ==
    RoundDiv(6 * (range[1] * RandDen + k * (range[2] - range[1])) + 4 * original * RandDen,
             10 * RandDen)

\* Math.max(0, Math.min(1, v))
clamp01(v) == Max(0, Min(100, v))

\* preset.id.includes(word)
idIncludes_never(id, word) == FALSE
idIncludes(id, word) ==
    <<id, word>> \in {<<"kick-1", "kick">>, <<"snare-1", "snare">>, <<"hihat-1", "hihat">>}

\* randomizedParams as handleRandomizePreset leaves it: one entry per key
\* of ranges, then the safety interdependencies and the preset rules in the
\* order of the code.  rand[key] is the draw made for key.
randomizedParams(preset, original, rand) ==
    LET rg == ranges(preset.category)
        r0 == [key \in DOMAIN rg |-> clamp01(biasedValue(rg[key], original[key], rand[key]))]
        r1 == IF r0.resonance > 60
              THEN [r0 EXCEPT !.feedback = Min(@, 30)] ELSE r0
        r2 == IF r1.feedback > 40
              THEN [r1 EXCEPT !.chaosLevel = Min(@, 20), !.resonance = Min(@, 60)] ELSE r1
        r3 == IF r2.chaosLevel > 30
              THEN [r2 EXCEPT !.feedback = Min(@, 20), !.ringMod = Min(@, 40),
                              !.fmAmount = Min(@, 50)]
              ELSE r2
        r4 == IF r3.fmAmount > 60
              THEN [r3 EXCEPT !.ringMod = Min(@, 30), !.chaosLevel = Min(@, 20)] ELSE r3
        r5 == IF idIncludes(preset.id, "kick")
              THEN [r4 EXCEPT !.fmAmount = Min(@, 40), !.envelopeShape = Max(@, 30),
                              !.chaosLevel = Min(@, 20)]
              ELSE r4
        r6 == IF idIncludes(preset.id, "hihat")
              THEN [r5 EXCEPT !.noiseLayer = Max(@, 40), !.envelopeShape = Min(@, 40),
                              !.feedback = Min(@, 30)]
              ELSE r5
    IN  IF idIncludes(preset.id, "snare")
        THEN [r6 EXCEPT !.chaosLevel = Min(@, 30), !.feedback = Min(@, 40)]
        ELSE r6

\* handleAiGenerate: the preset the prompt's keywords choose, as an index
\* of DEMO_PRESETS.  A prompt is the set of the keywords it includes.
includesAny(prompt, words) == prompt \cap words # {}
presetIndex(id, fallback) ==
    IF \E i \in 1..Len(DEMO_PRESETS) : DEMO_PRESETS[i].id = id
    THEN CHOOSE i \in 1..Len(DEMO_PRESETS) : DEMO_PRESETS[i].id = id
    ELSE fallback
bestPreset(prompt) ==
    IF includesAny(prompt, {"kick", "bass", "low"}) THEN presetIndex("kick-1", 1)
    ELSE IF includesAny(prompt, {"snare", "crack", "snap"}) THEN presetIndex("snare-1", 2)
    ELSE IF includesAny(prompt, {"hihat", "hi-hat", "sizzle"}) THEN presetIndex("hihat-1", 3)
    ELSE IF includesAny(prompt, {"fm", "tick", "chirp"}) THEN presetIndex("fm-blip-1", 4)
    ELSE IF includesAny(prompt, {"metal", "clank", "industrial"})
    THEN presetIndex("metal-hit-1", 5)
    ELSE IF includesAny(prompt, {"noise", "burst", "texture"})
    THEN presetIndex("noise-burst-1", 6)
    ELSE 1

\* (value || 0.5)
orDefault(value) == IF value = 0 THEN 50 ELSE value

\* Math.min(1, (p[key] || 0.5) + delta) or Math.max(0, (p[key] || 0.5) - delta)
\* when the prompt includes one of the words
adjust(p, prompt, words, key, delta) ==
    IF includesAny(prompt, words)
    THEN [p EXCEPT ![key] = IF delta > 0 THEN Min(100, orDefault(@) + delta)
                            ELSE Max(0, orDefault(@) + delta)]
    ELSE p

\* paramAdjustments as handleAiGenerate installs it, from a copy of the
\* best preset's parameters
paramAdjustments(parameters, prompt) ==
    LET a1 == adjust(parameters, prompt, {"long", "sustained"}, "envelopeShape", 30)
        a2 == adjust(a1, prompt, {"short", "quick", "snappy"}, "envelopeShape", -30)
        a3 == adjust(a2, prompt, {"dirty", "gritty", "distorted"}, "noiseLayer", 40)
        a4 == adjust(a3, prompt, {"dirty", "gritty", "distorted"}, "driveColor", 30)
        a5 == adjust(a4, prompt, {"clean", "pure", "smooth"}, "noiseLayer", -30)
        a6 == adjust(a5, prompt, {"clean", "pure", "smooth"}, "driveColor", -20)
        a7 == adjust(a6, prompt, {"harsh", "aggressive", "digital"}, "fmAmount", 40)
        a8 == adjust(a7, prompt, {"subtle", "soft", "gentle"}, "fmAmount", -30)
        a9 == adjust(a8, prompt, {"resonant", "ring", "sharp"}, "resonance", 40)
        a10 == adjust(a9, prompt, {"dull", "muffled", "soft"}, "resonance", -30)
        a11 == adjust(a10, prompt, {"warm", "vintage", "analog"}, "driveColor", 20)
    IN  adjust(a11, prompt, {"crunchy", "modern", "hard"}, "driveColor", 40)

\* the object paramAdjustments is: 0 for the new object of the spread
\* { ...bestPreset.parameters }, best for the preset's own object
adjustmentsObject_preset(best) == best
adjustmentsObject(best) == 0

----------------------------------------------------------------------------
(* components/ModularSynthEngine.tsx: generateModularSound.                *)
(* A parameter is an integer count of hundredths or one of the non-finite  *)
(* numbers NaN, Infinity, NegInfinity (a missing field reads as undefined, *)
(* which every use below turns into NaN).  Times are in microseconds,      *)
(* frequencies in millihertz, gains in thousandths.                        *)

Infinity == 0 + 2147483647
NegInfinity == 0 - 2147483646

\* isFinite(num)
isFinite(x) == x \notin {NaN, Infinity, NegInfinity}

\* a + x * b for a positive factor b
Lin(a, x, b) == IF isFinite(x) THEN a + x * b ELSE x

\* Math.max(c, x) for a finite c
mathMax(c, x) ==
    IF x = NaN THEN NaN
    ELSE IF x = Infinity THEN Infinity
    ELSE IF x = NegInfinity THEN c
    ELSE Max(c, x)

\* x - y
minus(x, y) ==
    IF isFinite(x) /\ isFinite(y) THEN x - y
    ELSE IF x = NaN \/ y = NaN \/ x = y THEN NaN
    ELSE IF isFinite(y) THEN x
    ELSE IF y = Infinity THEN NegInfinity ELSE Infinity

\* x > c for a parameter x and a threshold c in hundredths
greater(x, c) == IF isFinite(x) THEN x > c ELSE x = Infinity

\* safeParam(value) with min = 0 and max = 1
safeParam(value) == IF isFinite(value) THEN Max(0, Min(100, value)) ELSE 0

\* duration = Math.max(0.1, 0.1 + synthParams.envelopeShape * 0.5)
duration(params) == mathMax(100000, Lin(100000, params.envelopeShape, 5000))

\* baseFreq, in Hz
baseFreq(params, category) ==
    Max(20, Min(2000, IF category = "sounds"
                      THEN 150 + safeParam(params.fmAmount) * 8
                      ELSE 60))

\* the frequency vco1 plays: vco1Rate * (sampleRate / 2048) = baseFreq
vco1Freq(params, category) == baseFreq(params, category) * 1000

\* the frequency vco2 plays: baseFreq * detune,
\* detune = 1 + (crossMod * 0.1 - 0.05)
vco2Freq(params, category) ==
    baseFreq(params, category) * (950 + safeParam(params.crossMod))

\* fmOsc.frequency = baseFreq * fmRatio, fmRatio = 2 + fmAmount * 8
fmFreq(params, category) ==
    baseFreq(params, category) * (200 + 8 * safeParam(params.fmAmount)) * 10

\* the frequency the drum sweep ramps vco1 to:
\* Math.max(0.1, vco1Rate * (1 - envelopeShape * 0.5)) as a playback rate
sweepTargetFreq(params, category, sampleRate) ==
    Max((sampleRate * 100) \div 2048,
        baseFreq(params, category) * (1000 - 5 * safeParam(params.envelopeShape)))

\* attackTime, decayTime, releaseTime
attackTime(params) == Max(2000, 5000 + safeParam(params.envelopeShape) * 800)
decayTime(params) ==
    (attackTime(params) \div 100) * (300 + 8 * safeParam(params.envelopeShape))
releaseTime(params) ==
    LET d == duration(params)
    IN  IF isFinite(d)
        THEN (d \div 1000) * (400 + 6 * safeParam(params.envelopeShape))
        ELSE d

\* the times, after now, of the VCA gain events that follow
\* setValueAtTime(0, now), in the order the code schedules them
vcaTimes(params, category) ==
    LET a == attackTime(params)
        d == duration(params)
    IN  IF category = "drums"
        THEN <<a, a + decayTime(params), minus(d, 20000), d>>
        ELSE <<a, a + decayTime(params), minus(d, releaseTime(params)),
               minus(d, 10000), d>>

\* feedback loop, echo delay line, comb and all-pass banks
mainFeedbackAmount(params) == Min(400, safeParam(params.feedback) * 3)
feedbackDelayTime(params) == 5000 + safeParam(params.feedback) * 200
delayFeedbackAmount_full(params) == safeParam(params.delayFeedback) * 10
delayFeedbackAmount(params) == safeParam(params.delayFeedback) * 7
combFeedbacks == [i \in 1..4 |-> 700 - (i - 1) * 100]
allpassFeedbacks == [i \in 1..3 |-> 700]
combDelayTimes == <<29700, 37100, 41100, 43700>>
roomSize(params) == 500 + safeParam(params.reverbSize) * 25
combDelays(params) ==
    [i \in 1..4 |-> (combDelayTimes[i] * roomSize(params)) \div 1000]

\* all-pass bank and echo delay line
allpassDelayTimes == <<5000, 17000, 46000>>
allpassDelays(params) ==
    [i \in 1..3 |-> (allpassDelayTimes[i] * roomSize(params)) \div 1000]
delayTime(params) == 50000 + safeParam(params.delayTime) * 4000

\* every DelayNode with the maxDelayTime it was created with and the
\* delayTime set on it
delayElements(params) ==
    <<[node |-> "feedbackDelay", maxDelayTime |-> 100000,
       delayTime |-> feedbackDelayTime(params)]>>
    \o [i \in 1..4 |-> [node |-> "combDelays", maxDelayTime |-> 1000000,
                        delayTime |-> combDelays(params)[i]]]
    \o [i \in 1..3 |-> [node |-> "allpassDelays", maxDelayTime |-> 100000,
                        delayTime |-> allpassDelays(params)[i]]]
    \o <<[node |-> "delayLine", maxDelayTime |-> 1000000,
          delayTime |-> delayTime(params)]>>

\* reverbAmount and delayAmount, and the test that patches a send in
reverbAmount(params) == safeParam(params.reverbAmount)
delayAmount(params) == safeParam(params.delayTime)
sendConnected_always(amount) == TRUE
sendConnected(amount) == amount > 1

\* the connections from the master VCA to the destination: effects
\* patching, feedback patching, effect sends and the dry path.  The comb
\* and all-pass banks are one node each.
patching(params) ==
    { <<"reverbSend", "reverbInput">>, <<"reverbInput", "combDelays">>,
      <<"combDelays", "combGains">>, <<"combDelays", "combFeedbacks">>,
      <<"combFeedbacks", "combDelays">>, <<"combGains", "reverbMixer">>,
      <<"reverbMixer", "allpassDelays">>, <<"allpassDelays", "allpassGains">>,
      <<"allpassDelays", "allpassFeedbacks">>, <<"allpassFeedbacks", "allpassDelays">>,
      <<"allpassGains", "allpassDelays">>, <<"allpassGains", "reverbFilter">>,
      <<"reverbFilter", "reverbOutput">>, <<"reverbOutput", "effectsReturn">>,
      <<"delaySend", "delayLine">>, <<"delayLine", "delayFilter">>,
      <<"delayFilter", "delayFeedback">>, <<"delayFeedback", "delayLine">>,
      <<"delayFilter", "effectsReturn">>,
      <<"masterVCA", "vca">>, <<"vca", "finalMixer">>,
      <<"effectsReturn", "finalMixer">>, <<"finalMixer", "masterSaturation">>,
      <<"masterSaturation", "destination">> }
    \cup (IF mainFeedbackAmount(params) > 10
          THEN { <<"masterVCA", "feedbackDelay">>, <<"feedbackDelay", "feedbackGain">>,
                 <<"feedbackGain", "vcf1">>, <<"vcf1", "masterVCA">> }
          ELSE {})
    \cup (IF sendConnected(reverbAmount(params)) THEN { <<"vca", "reverbSend">> } ELSE {})
    \cup (IF sendConnected(delayAmount(params)) THEN { <<"vca", "delaySend">> } ELSE {})

\* the gains set on the two sends, in thousandths
sendGains(params) ==
    [reverbSend |-> reverbAmount(params) * 10,
     delaySend |-> IF delayAmount(params) > 1 THEN 800 ELSE 0]

\* noise buffer: Math.floor(ctx.sampleRate * (duration + 0.1)) frames
noiseBufferLength(params, sampleRate) ==
    LET d == duration(params)
    IN  IF isFinite(d) THEN (((d + 100000) \div 1000) * sampleRate) \div 1000 ELSE d

\* granular layer: its condition, the number of grains and the frames of a
\* grain buffer, Math.floor(grainSizeMs / 1000 * ctx.sampleRate)
grainActive(params) == greater(params.grainSize, 10) \/ greater(params.grainDensity, 10)
grainCount(params) ==
    IF isFinite(params.grainDensity)
    THEN Max(0, (200 + 18 * params.grainDensity) \div 100)
    ELSE 0
grainSizeUs(params) == Lin(1000, params.grainSize, 490)
grainBufferLength(params, sampleRate) ==
    LET g == grainSizeUs(params)
    IN  IF isFinite(g) THEN ((g \div 10) * (sampleRate \div 100)) \div 1000 ELSE g

\* createWavetableBank: eight waveforms of 2048 samples each
numTables == 8
tableSize == 2048

\* a % n of JavaScript for n > 0: the sign follows a
jsRem(a, n) == IF a >= 0 THEN a % n ELSE 0 - ((0 - a) % n)

\* Math.min(x, c) for a finite c
mathMin(x, c) ==
    IF x = NaN THEN NaN
    ELSE IF x = Infinity THEN c
    ELSE IF x = NegInfinity THEN NegInfinity
    ELSE Min(x, c)

\* getWavetableSample(wavetables, position, phase): the indices it reads
\* and how it ends.  position is in thousandths, phase * tableSize is
\* phaseNum / phaseDen; a non-finite phase has phaseNum non-finite.
\* wavetables[k] is undefined outside 0..7, and indexing undefined raises
\* a TypeError; a sample read outside 0..2047 is undefined, which turns the
\* returned sum into NaN, as does a non-finite tableFrac.
getWavetableSample(position, phaseNum, phaseDen) ==
    LET tableIndex == IF isFinite(position)
                      THEN (position * (numTables - 1)) \div 1000 ELSE position
        sampleIndex == IF isFinite(phaseNum)
                       THEN jsRem(phaseNum \div phaseDen, tableSize) ELSE NaN
        table1 == mathMin(tableIndex, numTables - 1)
        table2 == mathMin(Lin(1, tableIndex, 1), numTables - 1)
        inBank(t) == t \in 0..(numTables - 1)
    IN  [table1 |-> table1, table2 |-> table2, sampleIndex |-> sampleIndex,
         ended |-> IF ~inBank(table1) \/ ~inBank(table2) THEN "TypeError"
                   ELSE IF sampleIndex \notin 0..(tableSize - 1) \/ ~isFinite(position)
                   THEN "NaN"
                   ELSE "sample"]

\* a parameter as a wavetable position, in thousandths
asPosition(x) == IF isFinite(x) THEN x * 10 ELSE x

\* detunedPos = (wavetablePos2 + 0.125) % 1
detunedPos(params) == (safeParam(params.crossMod) * 10 + 125) % 1000

\* the lookups that fill an oscillator buffer: phase = i / 2048, shown for
\* the first and the last i
vcoLookups(position) ==
    <<getWavetableSample(position, 0, 1),
      getWavetableSample(position, tableSize - 1, 1)>>

\* the lookups that fill a grain of len frames: phase = (i / len) *
\* grainPitchShift with grainPitchShift = 0.5 + grainPitch * 1.5, shown for
\* the first and the last i
grainLookups(params, len) ==
    LET shift200 == Lin(100, params.grainPitch, 3)
        num(i) == IF isFinite(shift200) THEN i * shift200 * tableSize ELSE NaN
    IN  <<getWavetableSample(asPosition(params.grainPosition), num(0), 200 * len),
          getWavetableSample(asPosition(params.grainPosition), num(len - 1), 200 * len)>>

\* Web Audio raises a TypeError for a non-finite event time and a
\* NotSupportedError for a buffer of no, negative or non-finite many frames
allFinite(seq) == \A i \in DOMAIN seq : isFinite(seq[i])
validFrames(n) == isFinite(n) /\ n > 0
raisesEarly(params, category, sampleRate) ==
    \/ ~allFinite(vcaTimes(params, category))
    \/ ~validFrames(noiseBufferLength(params, sampleRate))
grainsFilled(params, category, sampleRate) ==
    /\ ~raisesEarly(params, category, sampleRate)
    /\ grainActive(params)
    /\ grainCount(params) > 0
    /\ validFrames(grainBufferLength(params, sampleRate))
wavetableLookups(params, category, sampleRate) ==
    vcoLookups(safeParam(params.fmAmount) * 10)
    \o vcoLookups(detunedPos(params))
    \o (IF grainsFilled(params, category, sampleRate)
        THEN grainLookups(params, grainBufferLength(params, sampleRate))
        ELSE <<>>)
raises(params, category, sampleRate) ==
    \/ raisesEarly(params, category, sampleRate)
    \/ /\ grainActive(params)
       /\ grainCount(params) > 0
       /\ ~validFrames(grainBufferLength(params, sampleRate))
    \/ LET lookups == wavetableLookups(params, category, sampleRate)
       IN  \E k \in DOMAIN lookups : lookups[k].ended = "TypeError"

\* generateModularSound(ctx, synthParams, selectedPreset): what it derives
\* and schedules, and how it ends; it returns duration * 1000
generateModularSound(params, category, sampleRate) ==
    [ended |-> IF raises(params, category, sampleRate) THEN "threw" ELSE "returned",
     duration |-> duration(params),
     baseFreq |-> baseFreq(params, category),
     sources |-> <<vco1Freq(params, category), vco2Freq(params, category),
                   fmFreq(params, category)>>
                 \o (IF category = "drums"
                     THEN <<sweepTargetFreq(params, category, sampleRate)>> ELSE <<>>),
     vcaTimes |-> vcaTimes(params, category),
     mainFeedbackAmount |-> mainFeedbackAmount(params),
     feedbackDelayTime |-> feedbackDelayTime(params),
     delayFeedbackAmount |-> delayFeedbackAmount(params),
     combFeedbacks |-> combFeedbacks,
     allpassFeedbacks |-> allpassFeedbacks,
     combDelays |-> combDelays(params),
     wavetableLookups |-> wavetableLookups(params, category, sampleRate),
     delayElements |-> delayElements(params),
     patching |-> IF raisesEarly(params, category, sampleRate) THEN {}
                  ELSE patching(params),
     sendGains |-> sendGains(params),
     noiseBufferLength |-> noiseBufferLength(params, sampleRate),
     grainBufferLength |-> IF grainActive(params) /\ grainCount(params) > 0
                           THEN grainBufferLength(params, sampleRate) ELSE 0]

----------------------------------------------------------------------------
(* The state of each group of variables while another group is exercised *)

NoResult == [applied |-> FALSE, peakBefore |-> 0, peakAfter |-> 0, gain |-> 0]

NoReport == [valid |-> FALSE, errors |-> <<>>,
             stats |-> [channels |-> Undefined, sampleRate |-> Undefined,
                        bitsPerSample |-> Undefined, dataSize |-> Undefined,
                        clipped |-> Undefined]]

NormIdle ==
    /\ npc = "idle"
    /\ monoIn = <<>>
    /\ mono = <<>>
    /\ nOpts = [targetRmsDBFS |-> -140, limiterThresholdDBFS |-> -10, maxGainDB |-> 240]
    /\ nResult = NoResult

CodecIdle ==
    /\ cpc = "idle"
    /\ floatIn = <<>>
    /\ reqRate = 0
    /\ bitDepth = 0
    /\ pcm = <<>>
    /\ wav = <<>>
    /\ vReport = NoReport

ResampleIdle ==
    /\ rpc = "idle"
    /\ rsInput = <<>>
    /\ srcRate = 0
    /\ dstRate = 0
    /\ rsOut = <<>>
    /\ rsReads = {}

NoExport == [pc |-> "none", format |-> "none", currentSynthParams |-> defaultParams,
             preset |-> 1, customSampleLength |-> 0, bufferLength |-> 0,
             actualDuration |-> 0, renderLength |-> 0, wavSize |-> 0,
             downloaded |-> FALSE, thrown |-> FALSE,
             refusedClick |-> FALSE, afterFailure |-> FALSE]

NoAi == [prompt |-> {}, generateSound |-> <<>>]
NoTimer == [by |-> "none", preset |-> 0, generateSound |-> <<>>, installed |-> <<>>]
NoSound == [by |-> "none", synthParams |-> <<>>, selectedPreset |-> 0, installed |-> <<>>]

SoundIdle ==
    /\ presetStore = [i \in 1..Len(DEMO_PRESETS) |-> DEMO_PRESETS[i].parameters]
    /\ isGenerating = FALSE
    /\ aiRun = NoAi
    /\ timer = NoTimer
    /\ lastAuto = NoSound
    /\ isPlaying = FALSE

UiIdle ==
    /\ SoundIdle
    /\ selectedPreset = 1
    /\ synthParams = defaultParams
    /\ sampleLength = 22050
    /\ isExporting = FALSE
    /\ ctxSampleRate = 0
    /\ exportRun = NoExport
    /\ inFlight = 0

EngineIdle ==
    /\ gpc = "idle"
    /\ gParams = defaultParams
    /\ gCategory = "drums"
    /\ gSampleRate = 0
    /\ gOut = <<>>

ExportIdle ==
    /\ xpc = "idle"
    /\ xFn = "none"
    /\ xHeap = <<>>
    /\ xInput = 0
    /\ xInputBefore = <<>>
    /\ xSrcRate = 0
    /\ xStages = <<>>
    /\ xBytes = <<>>
    /\ xTrace = NoTrace

\* the variables each specification leaves alone
notNormVars == <<codecVars, resampleVars, uiVars, engineVars, exportVars, soundVars>>
notCodecVars == <<normVars, resampleVars, uiVars, engineVars, exportVars, soundVars>>
notResampleVars == <<normVars, codecVars, uiVars, engineVars, exportVars, soundVars>>
notUiVars == <<normVars, codecVars, resampleVars, engineVars, exportVars, soundVars>>
notEngineVars == <<normVars, codecVars, resampleVars, uiVars, exportVars, soundVars>>
notExportVars == <<normVars, codecVars, resampleVars, uiVars, engineVars, soundVars>>
notComponentVars == <<normVars, codecVars, resampleVars, engineVars, exportVars>>

----------------------------------------------------------------------------
(* Specification of one normalizeMonoBuffer call on any buffer and options *)

\* sample values of the input buffers: silence, values at and around the
\* silence threshold, quiet and loud values, full scale and beyond
NormSamples == {0, 1, -2, 60000, -500000, 1500000}
NormBuffers == UNION {[1..n -> NormSamples] : n \in 0..MaxLen}
NormOptions ==
    [targetRmsDBFS : {-140, 0},
     limiterThresholdDBFS : {-10, -5, -400},
     maxGainDB : {240, 200}]

InitNormalize ==
    /\ UiIdle
    /\ EngineIdle
    /\ ExportIdle
    /\ CodecIdle
    /\ ResampleIdle
    /\ npc = "call"
    /\ monoIn \in NormBuffers
    /\ mono = monoIn
    /\ nOpts \in NormOptions
    /\ nResult = NoResult

Normalize ==
    /\ npc = "call"
    /\ LET r == normalizeMonoBuffer(mono, nOpts)
       IN  /\ mono' = r.buf
           /\ nResult' = r.res
    /\ npc' = "done"
    /\ UNCHANGED <<monoIn, nOpts>>
    /\ UNCHANGED notNormVars

NextNormalize == Normalize

SpecNormalize == InitNormalize /\ [][NextNormalize]_vars

----------------------------------------------------------------------------
(* Specification of quantize -> encode -> validate on any buffer *)

\* sample values of the buffers to quantize: silence, a quiet and a
\* mid-level value, both full-scale values and values beyond full scale
CodecSamples == {0, 3, -400000, One, -One, 1500000, -2000000}
CodecBuffers == UNION {[1..n -> CodecSamples] : n \in 0..MaxPcmLen}
\* the sample rates the exports ask for
SampleRates == {22168, 44100, 48000}

InitCodec ==
    /\ UiIdle
    /\ EngineIdle
    /\ ExportIdle
    /\ NormIdle
    /\ ResampleIdle
    /\ cpc = "input"
    /\ floatIn \in CodecBuffers
    /\ reqRate \in SampleRates
    /\ bitDepth = 0
    /\ pcm = <<>>
    /\ wav = <<>>
    /\ vReport = NoReport

\* applyDitherThenQuantize(resampled, 8)
Quantize8 ==
    /\ cpc = "input"
    /\ \E rnd \in DrawPairs(Len(floatIn)) :
          pcm' = applyDitherThenQuantize(floatIn, 8, rnd)
    /\ bitDepth' = 8
    /\ cpc' = "quantized"
    /\ UNCHANGED <<floatIn, reqRate, wav, vReport>>
    /\ UNCHANGED notCodecVars

\* floatTo16BitPCMWithTPDF(render)
Quantize16 ==
    /\ cpc = "input"
    /\ \E rnd \in DrawPairs(Len(floatIn)) :
          pcm' = floatTo16BitPCMWithTPDF(floatIn, rnd)
    /\ bitDepth' = 16
    /\ cpc' = "quantized"
    /\ UNCHANGED <<floatIn, reqRate, wav, vReport>>
    /\ UNCHANGED notCodecVars

\* writeWavU8Mono(pcmU8, rate)
EncodeU8 ==
    /\ cpc = "quantized"
    /\ bitDepth = 8
    /\ wav' = writeWavU8Mono(pcm, reqRate)
    /\ cpc' = "encoded"
    /\ UNCHANGED <<floatIn, reqRate, bitDepth, pcm, vReport>>
    /\ UNCHANGED notCodecVars

\* encodeWavMono16(pcm16, rate)
Encode16 ==
    /\ cpc = "quantized"
    /\ bitDepth = 16
    /\ wav' = encodeWavMono16(pcm, reqRate)
    /\ cpc' = "encoded"
    /\ UNCHANGED <<floatIn, reqRate, bitDepth, pcm, vReport>>
    /\ UNCHANGED notCodecVars

\* validatePTWavExport(bytes)
Validate ==
    /\ cpc = "encoded"
    /\ vReport' = validatePTWavExport(wav)
    /\ cpc' = "validated"
    /\ UNCHANGED <<floatIn, reqRate, bitDepth, pcm, wav>>
    /\ UNCHANGED notCodecVars

\* a well-formed two-sample PT-WAV file at 22168 Hz
GoodWav == writeWavU8Mono(<<128, 64>>, 22168)

\* byte arrays that are not the encoders' output: GoodWav cut short (empty,
\* inside the header, one byte before its end) and GoodWav whose data-size
\* field says one byte more than the array holds
ForeignBytes ==
    {SubSeq(GoodWav, 1, k) : k \in {0, 3, 10, 23, 30, 43, 44, 45}}
    \cup {[GoodWav EXCEPT ![41] = 3]}

\* validatePTWavExport(bytes) on a byte array from elsewhere
ValidateForeign ==
    /\ cpc = "input"
    /\ \E bytes \in ForeignBytes :
          /\ wav' = bytes
          /\ vReport' = validatePTWavExport(bytes)
    /\ cpc' = "checked"
    /\ UNCHANGED <<floatIn, reqRate, bitDepth, pcm>>
    /\ UNCHANGED notCodecVars

NextCodec ==
    \/ ValidateForeign
    \/ Quantize8
    \/ Quantize16
    \/ EncodeU8
    \/ Encode16
    \/ Validate

SpecCodec == InitCodec /\ [][NextCodec]_vars

----------------------------------------------------------------------------
(* Specification of one linearResampleMono call on any buffer and rates *)

ResampleSamples == {0, 3, One, -500000}
ResampleBuffers == UNION {[1..n -> ResampleSamples] : n \in 0..MaxLen}

InitResample ==
    /\ UiIdle
    /\ EngineIdle
    /\ ExportIdle
    /\ NormIdle
    /\ CodecIdle
    /\ rpc = "call"
    /\ rsInput \in ResampleBuffers
    /\ srcRate \in SampleRates
    /\ dstRate \in SampleRates
    /\ rsOut = <<>>
    /\ rsReads = {}

Resample ==
    /\ rpc = "call"
    /\ rsOut' = linearResampleMono(rsInput, srcRate, dstRate)
    /\ rsReads' = linearResampleReads(rsInput, srcRate, dstRate)
    /\ rpc' = "done"
    /\ UNCHANGED <<rsInput, srcRate, dstRate>>
    /\ UNCHANGED notResampleVars

NextResample == Resample

SpecResample == InitResample /\ [][NextResample]_vars

----------------------------------------------------------------------------
(* Specification of the component: parameters, sample length and exports *)

\* the values the envelope-shape control is moved to
SliderValues == {0, 100}
\* the values typed into the sample-length input (0: nothing that parses)
TypedLengths == {0, 4410, 70000}
\* the sample rates of the audio context
ContextRates == {44100, 48000}

Init ==
    /\ EngineIdle
    /\ ExportIdle
    /\ NormIdle
    /\ CodecIdle
    /\ ResampleIdle
    /\ SoundIdle
    /\ selectedPreset = 1
    /\ synthParams = defaultParams
    /\ sampleLength = 22050
    /\ isExporting = FALSE
    /\ ctxSampleRate \in ContextRates
    /\ exportRun = NoExport
    /\ inFlight = 0

\* handlePresetSelect(preset)
HandlePresetSelect ==
    /\ \E p \in 1..Len(DEMO_PRESETS) :
          /\ selectedPreset' = p
          /\ synthParams' = presetStore[p]
    /\ UNCHANGED <<sampleLength, isExporting, ctxSampleRate, exportRun, inFlight>>
    /\ UNCHANGED notUiVars

\* handleParamChange('envelopeShape', value)
HandleParamChange ==
    /\ \E value \in SliderValues :
          synthParams' = [synthParams EXCEPT !.envelopeShape = value]
    /\ UNCHANGED <<selectedPreset, sampleLength, isExporting, ctxSampleRate, exportRun, inFlight>>
    /\ UNCHANGED notUiVars

\* the sample-length input's onChange
ChangeSampleLength ==
    /\ \E value \in TypedLengths : sampleLength' = clampSampleLength(value)
    /\ UNCHANGED <<selectedPreset, synthParams, isExporting, ctxSampleRate, exportRun, inFlight>>
    /\ UNCHANGED notUiVars

\* exportWav(synthParams, selectedPreset, {format, customSampleLength:
\* sampleLength}) up to the await of the offline render: setIsExporting(true),
\* then renderAudioToBuffer sizes the OfflineAudioContext and
\* generateModularSound schedules the event and returns its duration
StartExport(format) ==
    /\ ~exportDisabled
    /\ isExporting' = TRUE
    /\ inFlight' = inFlight + 1
    /\ exportRun' = [pc |-> "rendering",
                     format |-> format,
                     currentSynthParams |-> synthParams,
                     preset |-> selectedPreset,
                     customSampleLength |-> sampleLength,
                     bufferLength |-> renderBufferLength(synthParams, sampleLength, ctxSampleRate),
                     actualDuration |-> engineDurationMs(synthParams),
                     renderLength |-> 0,
                     wavSize |-> 0,
                     downloaded |-> FALSE,
                     thrown |-> FALSE,
                     refusedClick |-> FALSE,
                     afterFailure |-> exportRun.pc = "failed"]
    /\ UNCHANGED <<selectedPreset, synthParams, sampleLength, ctxSampleRate>>
    /\ UNCHANGED notUiVars

\* a click on the Standard WAV button (disabled while isExporting)
HandleExportStandardWav == StartExport("standard")

\* a click on the PT-WAV button (disabled while isExporting)
HandleExportPTWav == StartExport("pt-wav")

\* a click on an export button while it is disabled: the browser
\* dispatches no click event and no handler runs
ClickWhileDisabled ==
    /\ exportDisabled
    /\ exportRun.pc = "rendering"
    /\ exportRun' = [exportRun EXCEPT !.refusedClick = TRUE]
    /\ UNCHANGED <<selectedPreset, synthParams, sampleLength, isExporting, ctxSampleRate,
                   inFlight>>
    /\ UNCHANGED notUiVars

\* offlineCtx.startRendering() resolves with a buffer of bufferLength
\* samples; exportWav normalizes, quantizes, encodes and downloads it, and
\* its finally block calls setIsExporting(false)
RenderComplete ==
    /\ exportRun.pc = "rendering"
    /\ exportRun' = [exportRun EXCEPT
                        !.pc = "done",
                        !.renderLength = exportRun.bufferLength,
                        !.wavSize = exportWavSize(exportRun.format, exportRun.bufferLength,
                                                  ctxSampleRate),
                        !.downloaded = TRUE]
    /\ isExporting' = finallyIsExporting(isExporting)
    /\ inFlight' = inFlight - 1
    /\ UNCHANGED <<selectedPreset, synthParams, sampleLength, ctxSampleRate>>
    /\ UNCHANGED notUiVars

\* the render, the conditioning or the encoding throws (all of them come
\* before the download of lines 384-390): exportWav's catch block reports
\* the error and rethrows it, and its finally block calls
\* setIsExporting(false)
RenderFailed ==
    /\ exportRun.pc = "rendering"
    /\ exportRun' = [exportRun EXCEPT !.pc = "failed", !.thrown = TRUE]
    /\ isExporting' = finallyIsExporting(isExporting)
    /\ inFlight' = inFlight - 1
    /\ UNCHANGED <<selectedPreset, synthParams, sampleLength, ctxSampleRate>>
    /\ UNCHANGED notUiVars

Next ==
    \/ HandlePresetSelect
    \/ HandleParamChange
    \/ ChangeSampleLength
    \/ HandleExportStandardWav
    \/ HandleExportPTWav
    \/ ClickWhileDisabled
    \/ RenderComplete
    \/ RenderFailed

Spec == Init /\ [][Next]_vars

----------------------------------------------------------------------------
(* Randomize, AI generation and the auto-triggered sound.  A handler that  *)
(* schedules an auto-trigger runs while none is pending.                   *)

\* generateSound as the render that made the running handler defined it:
\* useCallback(..., [synthParams, selectedPreset]) closes over that render's
\* synthParams and selectedPreset
generateSoundClosure ==
    [synthParams |-> synthParams, selectedPreset |-> selectedPreset]

\* handleRandomizePreset(preset) with the draws rand
HandleRandomizePreset(p, rand) ==
    /\ timer = NoTimer
    /\ ~isGenerating
    /\ synthParams' = randomizedParams(DEMO_PRESETS[p], presetStore[p], rand)
    /\ timer' = [by |-> "handleRandomizePreset",
                 preset |-> p,
                 generateSound |-> generateSoundClosure,
                 installed |-> [synthParams |-> synthParams',
                                selectedPreset |-> selectedPreset]]
    /\ lastAuto' = NoSound
    /\ UNCHANGED <<selectedPreset, presetStore, isGenerating, aiRun, isPlaying>>
    /\ UNCHANGED <<sampleLength, isExporting, ctxSampleRate, exportRun, inFlight>>
    /\ UNCHANGED notComponentVars

\* handleAiGenerate up to its await: setIsGenerating(true)
AiGenerateStart(prompt) ==
    /\ timer = NoTimer
    /\ ~isGenerating
    /\ prompt # {}
    /\ isGenerating' = TRUE
    /\ aiRun' = [prompt |-> prompt, generateSound |-> generateSoundClosure]
    /\ lastAuto' = NoSound
    /\ UNCHANGED <<selectedPreset, synthParams, presetStore, timer, isPlaying>>
    /\ UNCHANGED <<sampleLength, isExporting, ctxSampleRate, exportRun, inFlight>>
    /\ UNCHANGED notComponentVars

\* handleAiGenerate after its await: the preset and the adjusted
\* parameters are installed and the auto-trigger is scheduled
AiGenerateFinish ==
    /\ isGenerating
    /\ LET best == bestPreset(aiRun.prompt)
           adjusted == paramAdjustments(presetStore[best], aiRun.prompt)
       IN  /\ presetStore' = IF adjustmentsObject(best) = 0 THEN presetStore
                             ELSE [presetStore EXCEPT ![best] = adjusted]
           /\ selectedPreset' = best
           /\ synthParams' = adjusted
           /\ timer' = [by |-> "handleAiGenerate",
                        preset |-> best,
                        generateSound |-> aiRun.generateSound,
                        installed |-> [synthParams |-> adjusted, selectedPreset |-> best]]
    /\ isGenerating' = FALSE
    /\ aiRun' = NoAi
    /\ UNCHANGED <<lastAuto, isPlaying>>
    /\ UNCHANGED <<sampleLength, isExporting, ctxSampleRate, exportRun, inFlight>>
    /\ UNCHANGED notComponentVars

\* the timer fires: generateSound() of the closure runs
\* generateModularSound(ctx, synthParams, selectedPreset) and setIsPlaying(true)
AutoTrigger ==
    /\ timer # NoTimer
    /\ lastAuto' = [by |-> timer.by,
                    synthParams |-> timer.generateSound.synthParams,
                    selectedPreset |-> timer.generateSound.selectedPreset,
                    installed |-> timer.installed]
    /\ timer' = NoTimer
    /\ isPlaying' = TRUE
    /\ UNCHANGED <<selectedPreset, synthParams, presetStore, isGenerating, aiRun>>
    /\ UNCHANGED <<sampleLength, isExporting, ctxSampleRate, exportRun, inFlight>>
    /\ UNCHANGED notComponentVars

\* handleTrigger: generateSound() of the current render
HandleTrigger ==
    /\ ~isPlaying
    /\ isPlaying' = TRUE
    /\ UNCHANGED <<selectedPreset, synthParams, presetStore, isGenerating, aiRun, timer,
                   lastAuto>>
    /\ UNCHANGED <<sampleLength, isExporting, ctxSampleRate, exportRun, inFlight>>
    /\ UNCHANGED notComponentVars

\* setTimeout(() => setIsPlaying(false), durationMs)
PlaybackEnds ==
    /\ isPlaying
    /\ isPlaying' = FALSE
    /\ UNCHANGED <<selectedPreset, synthParams, presetStore, isGenerating, aiRun, timer,
                   lastAuto>>
    /\ UNCHANGED <<sampleLength, isExporting, ctxSampleRate, exportRun, inFlight>>
    /\ UNCHANGED notComponentVars

InitSound ==
    /\ EngineIdle
    /\ ExportIdle
    /\ NormIdle
    /\ CodecIdle
    /\ ResampleIdle
    /\ UiIdle

----------------------------------------------------------------------------
(* Specification of one handleRandomizePreset call on any preset and draws *)

\* a draw per key: the keys of the safety rules on their own, the rest alike
RuleKeys == {"resonance", "feedback", "chaosLevel", "fmAmount", "ringMod"}
RandomVectors ==
    {[key \in DOMAIN ranges("drums") |-> IF key \in RuleKeys THEN f[key] ELSE 0] :
        f \in [RuleKeys -> {0, RandDen - 1}]}

\* the first randomize of a session
RandomizeAnyPreset ==
    /\ lastAuto = NoSound
    /\ ~isPlaying
    /\ \E p \in 1..Len(DEMO_PRESETS), rand \in RandomVectors :
          HandleRandomizePreset(p, rand)

NextRandomize ==
    \/ RandomizeAnyPreset
    \/ AutoTrigger
    \/ PlaybackEnds

SpecRandomize == InitSound /\ [][NextRandomize]_vars

----------------------------------------------------------------------------
(* Specification of the component: presets, tweaks, randomize, AI          *)
(* generation and triggering                                               *)

SoundPresets == {1, 4}
UniformVectors ==
    {[key \in DOMAIN ranges("drums") |-> k] : k \in {0, RandDen - 1}}
Prompts == {{"kick", "long"}, {"snare", "dirty"}, {"soft"}}

RandomizePreset ==
    \E p \in SoundPresets, rand \in UniformVectors : HandleRandomizePreset(p, rand)

HandleAiGenerate == \E prompt \in Prompts : AiGenerateStart(prompt)

NextSound ==
    \/ HandlePresetSelect
    \/ HandleParamChange
    \/ RandomizePreset
    \/ HandleAiGenerate
    \/ AiGenerateFinish
    \/ AutoTrigger
    \/ HandleTrigger
    \/ PlaybackEnds

SpecSound == InitSound /\ [][NextSound]_vars

----------------------------------------------------------------------------
(* Specification of one generateModularSound call on any parameters *)

EnvelopeValues == {0, 30, 80, 100, 250, NaN, Infinity, NegInfinity}
FmValues == {0, 50, 100, NaN}
CrossModValues == {0, 100}
FeedbackValues == {0, 100, 300, Infinity}
DelayFeedbackValues == {0, 100, 500}
ReverbSizeValues == {100, NaN}
GrainSizeValues == {0, 50, Infinity, -200}
GrainDensityValues == {0, 50}
Categories == {"drums", "sounds", "textures", "chaos", "physical"}

\* the effect sends and the grain position and pitch are at the slider
\* midpoint here; SpecEffects varies them
EngineParams ==
    [envelopeShape : EnvelopeValues, fmAmount : FmValues, crossMod : CrossModValues,
     feedback : FeedbackValues, delayFeedback : DelayFeedbackValues,
     reverbSize : ReverbSizeValues, grainSize : GrainSizeValues,
     grainDensity : GrainDensityValues,
     reverbAmount : {50}, delayTime : {50}, grainPosition : {50}, grainPitch : {50}]

InitEngine ==
    /\ UiIdle
    /\ NormIdle
    /\ CodecIdle
    /\ ResampleIdle
    /\ ExportIdle
    /\ gpc = "call"
    /\ gParams \in EngineParams
    /\ gCategory \in Categories
    /\ gSampleRate \in ContextRates
    /\ gOut = <<>>

\* generateModularSound(ctx, synthParams, selectedPreset)
GenerateModularSound ==
    /\ gpc = "call"
    /\ gOut' = generateModularSound(gParams, gCategory, gSampleRate)
    /\ gpc' = "done"
    /\ UNCHANGED <<gParams, gCategory, gSampleRate>>
    /\ UNCHANGED notEngineVars

NextEngine == GenerateModularSound

SpecEngine == InitEngine /\ [][NextEngine]_vars

----------------------------------------------------------------------------
(* Specification of one generateModularSound call on any effect sends,    *)
(* room size and grain settings                                            *)

SendValues == {0, 1, 2, 100}
RoomValues == {0, 50, 100}
GrainPositionValues == {50, 150, -10, NaN, Infinity}
GrainPitchValues == {50, -100, NaN}

EffectsParams ==
    [envelopeShape : {30}, fmAmount : {0}, crossMod : {100},
     feedback : {0, 100}, delayFeedback : {50},
     reverbSize : RoomValues, grainSize : {50}, grainDensity : {50},
     reverbAmount : SendValues, delayTime : SendValues,
     grainPosition : GrainPositionValues, grainPitch : GrainPitchValues]

InitEffects ==
    /\ UiIdle
    /\ NormIdle
    /\ CodecIdle
    /\ ResampleIdle
    /\ ExportIdle
    /\ gpc = "call"
    /\ gParams \in EffectsParams
    /\ gCategory = "drums"
    /\ gSampleRate \in ContextRates
    /\ gOut = <<>>

SpecEffects == InitEffects /\ [][NextEngine]_vars

----------------------------------------------------------------------------
(* Specification of one export call on any buffer and source rate *)

ExportSamples == {0, 500000, -250000, One}
\* silence that ends in one full-scale sample: a buffer of high crest factor
Impulse == [i \in 1..ImpulseLen |-> IF i = ImpulseLen THEN One ELSE 0]
ExportBuffers == UNION {[1..n -> ExportSamples] : n \in 0..MaxPcmLen} \cup {Impulse}
ExportRates == {48000, 44100, 22168}

\* the dither draws of an export: every Math.random() alike
UniformDraws(n) == {[i \in 1..n |-> <<r, r>>] : r \in Draws}

InitExport ==
    /\ UiIdle
    /\ EngineIdle
    /\ NormIdle
    /\ CodecIdle
    /\ ResampleIdle
    /\ xpc = "call"
    /\ xFn = "none"
    /\ xInputBefore \in ExportBuffers
    /\ xHeap = <<xInputBefore>>
    /\ xInput = 1
    /\ xSrcRate \in ExportRates
    /\ xStages = <<>>
    /\ xBytes = <<>>
    /\ xTrace = NoTrace

\* the throw of an export on an empty buffer
ThrowEmpty(fn) ==
    /\ xFn' = fn
    /\ xpc' = "threw"
    /\ UNCHANGED <<xHeap, xInput, xInputBefore, xSrcRate, xStages, xBytes, xTrace>>

\* exportPTWavV2(inputFloatMono, {srcSampleRate})
ExportPTWavV2 ==
    /\ xpc = "call"
    /\ IF Len(xHeap[xInput]) = 0
       THEN ThrowEmpty("exportPTWavV2")
       ELSE LET c == ptConditioning(xHeap, xInput, xSrcRate)
            IN  /\ \E rnd \in UniformDraws(Len(c.heap[c.out])) :
                      xBytes' = writeWavU8Mono(
                                    applyDitherThenQuantize(c.heap[c.out], 8, rnd), 22168)
                /\ xHeap' = c.heap
                /\ xTrace' = c.trace
                /\ xStages' = c.stages \o <<"quantize", "encode">>
                /\ xFn' = "exportPTWavV2"
                /\ xpc' = "returned"
                /\ UNCHANGED <<xInput, xInputBefore, xSrcRate>>
    /\ UNCHANGED notExportVars

\* exportStandardWav(inputFloatMono, {srcSampleRate})
ExportStandardWav ==
    /\ xpc = "call"
    /\ IF Len(xHeap[xInput]) = 0
       THEN ThrowEmpty("exportStandardWav")
       ELSE LET c == standardConditioning(xHeap, xInput, xSrcRate)
            IN  /\ \E rnd \in UniformDraws(Len(c.heap[c.out])) :
                      xBytes' = encodeWavMono16(
                                    floatTo16BitPCMWithTPDF(c.heap[c.out], rnd), 44100)
                /\ xHeap' = c.heap
                /\ xTrace' = c.trace
                /\ xStages' = c.stages \o <<"quantize", "encode">>
                /\ xFn' = "exportStandardWav"
                /\ xpc' = "returned"
                /\ UNCHANGED <<xInput, xInputBefore, xSrcRate>>
    /\ UNCHANGED notExportVars

\* exportWav from the render to the encoded file; the render holds at
\* least one sample
ExportWavEncode ==
    /\ xpc = "call"
    /\ Len(xHeap[xInput]) > 0
    /\ \E format \in {"standard", "pt-wav"} :
          LET c == exportWavConditioning(xHeap, xInput, format, xSrcRate)
          IN  /\ \E rnd \in UniformDraws(Len(c.heap[c.out])) :
                    xBytes' = IF format = "pt-wav"
                              THEN writeWavU8Mono(
                                       applyDitherThenQuantize(c.heap[c.out], 8, rnd), 22168)
                              ELSE encodeWavMono16(
                                       floatTo16BitPCMWithTPDF(c.heap[c.out], rnd), xSrcRate)
              /\ xHeap' = c.heap
              /\ xTrace' = c.trace
              /\ xStages' = c.stages \o <<"quantize", "encode">>
    /\ xFn' = "exportWav"
    /\ xpc' = "returned"
    /\ UNCHANGED <<xInput, xInputBefore, xSrcRate>>
    /\ UNCHANGED notExportVars

NextExport ==
    \/ ExportPTWavV2
    \/ ExportStandardWav
    \/ ExportWavEncode

SpecExport == InitExport /\ [][NextExport]_vars

----------------------------------------------------------------------------
(* Claims about normalizeMonoBuffer, checked under SpecNormalize *)

limiterThresholdLin == dBToLinear(nOpts.limiterThresholdDBFS)

C8_SilentUntouched ==
    (npc = "done" /\ \A i \in 1..Len(monoIn) : monoIn[i] = 0) =>
        /\ nResult.applied = FALSE
        /\ nResult.gain = GainOne
        /\ nResult.peakAfter = nResult.peakBefore
        /\ mono = monoIn

\* C8 witness: the call has returned on an all-zero buffer of full length.
C8_Witness ==
    /\ npc = "done"
    /\ Len(monoIn) = MaxLen
    /\ \A i \in 1..Len(monoIn) : monoIn[i] = 0
    /\ nResult.applied = FALSE

\* C9 as stated: the skip decision is made on RMS: normalizeMonoBuffer
\* reports applied = false and leaves the buffer untouched if and only if
\* the input's RMS is below the silence threshold.
C9_SkipOnRms ==
    (npc = "done" /\ Len(monoIn) > 0) =>
        ((nResult.applied = FALSE /\ mono = monoIn)
            <=> getRms(monoIn) < silenceThreshold)

\* C9 as amended: the skip decision is made on the absolute peak:
\* normalizeMonoBuffer reports applied = false and leaves the buffer
\* untouched if and only if the input's peak is below the silence threshold;
\* for every input whose peak is at or above it, it applies a gain.
C9_SkipOnPeak ==
    npc = "done" =>
        /\ (nResult.applied = FALSE) <=> (getAbsPeak(monoIn) < silenceThreshold)
        /\ nResult.applied = FALSE => mono = monoIn
        /\ nResult.applied = TRUE => nResult.gain > 0

\* C9 witness: a buffer whose RMS is below the silence threshold while its
\* peak is not, and which was given a gain.
C9_Witness ==
    /\ npc = "done"
    /\ Len(monoIn) > 0
    /\ getRms(monoIn) < silenceThreshold
    /\ getAbsPeak(monoIn) >= silenceThreshold
    /\ nResult.applied = TRUE
    /\ mono # monoIn

----------------------------------------------------------------------------
(* Claims about quantization and the container, checked under SpecCodec *)

\* a sample beyond full scale by more than the largest dither value
AboveFullScale(x) == x > One + One \div 128
BelowFullScale(x) == x < -One - One \div 128

\* C2: quantization never leaves the target integer range and never wraps
\* around: 8-bit values lie in [0,255] and 16-bit values in [-32768,32767],
\* and a sample beyond full scale is quantized to the nearest end of the
\* range, for every input sample and every dither draw.
C2_QuantizedRange ==
    cpc = "quantized" =>
        \A i \in 1..Len(pcm) :
            /\ bitDepth = 8 =>
                  /\ pcm[i] \in 0..255
                  /\ AboveFullScale(floatIn[i]) => pcm[i] = 255
                  /\ BelowFullScale(floatIn[i]) => pcm[i] = 0
            /\ bitDepth = 16 =>
                  /\ pcm[i] \in -32768..32767
                  /\ AboveFullScale(floatIn[i]) => pcm[i] = 32767
                  /\ BelowFullScale(floatIn[i]) => pcm[i] = -32768

\* C2 witness: a 16-bit quantization of a buffer holding a sample above and
\* a sample below full scale.
C2_Witness ==
    /\ cpc = "quantized"
    /\ bitDepth = 16
    /\ \E i, j \in 1..Len(pcm) :
          /\ AboveFullScale(floatIn[i]) /\ pcm[i] = 32767
          /\ BelowFullScale(floatIn[j]) /\ pcm[j] = -32768

\* C3: round trip: the validator run on the encoded bytes reports exactly
\* the requested sample rate, channel count 1 and the requested bit depth,
\* for 8-bit files of writeWavU8Mono and 16-bit files of encodeWavMono16.
C3_RoundTrip ==
    cpc = "validated" =>
        /\ vReport.stats.sampleRate = reqRate
        /\ vReport.stats.channels = 1
        /\ vReport.stats.bitsPerSample = bitDepth

\* C3 witness: a validated 16-bit file at 44100 Hz with samples in it.
C3_Witness ==
    /\ cpc = "validated"
    /\ bitDepth = 16
    /\ reqRate = 44100
    /\ Len(pcm) = MaxPcmLen
    /\ vReport.stats.bitsPerSample = 16

\* the little-endian number in the n bytes of a file from byte offset at
RECURSIVE FieldLE(_, _, _)
FieldLE(bytes, at, n) ==
    IF n = 0 THEN 0 ELSE bytes[at + 1] + 256 * FieldLE(bytes, at + 1, n - 1)

\* the bytes a sample of the given depth is stored as
SampleBytes(v, bits) ==
    IF bits = 8 THEN <<v>>
    ELSE LET u == IF v < 0 THEN v + 65536 ELSE v IN <<u % 256, u \div 256>>

\* C4: every encoded file is a 44-byte little-endian RIFF/WAVE PCM mono
\* header followed by the payload: total length 44 + dataSize, RIFF size
\* 36 + dataSize, data-chunk size dataSize (N bytes for N 8-bit samples, 2N
\* for N 16-bit samples), byteRate = sampleRate * blockAlign and
\* blockAlign = bitsPerSample / 8.
C4_HeaderLayout ==
    cpc \in {"encoded", "validated"} =>
        LET dataSize == Len(pcm) * (bitDepth \div 8)
        IN  /\ Len(wav) = 44 + dataSize
            /\ SubSeq(wav, 1, 4) = <<82, 73, 70, 70>>
            /\ FieldLE(wav, 4, 4) = 36 + dataSize
            /\ SubSeq(wav, 9, 12) = <<87, 65, 86, 69>>
            /\ SubSeq(wav, 13, 16) = <<102, 109, 116, 32>>
            /\ FieldLE(wav, 16, 4) = 16
            /\ FieldLE(wav, 20, 2) = 1
            /\ FieldLE(wav, 22, 2) = 1
            /\ FieldLE(wav, 24, 4) = reqRate
            /\ FieldLE(wav, 28, 4) = reqRate * FieldLE(wav, 32, 2)
            /\ FieldLE(wav, 32, 2) = bitDepth \div 8
            /\ FieldLE(wav, 34, 2) = bitDepth
            /\ SubSeq(wav, 37, 40) = <<100, 97, 116, 97>>
            /\ FieldLE(wav, 40, 4) = dataSize
            /\ \A i \in 1..Len(pcm) :
                  SubSeq(wav, 44 + (i - 1) * (bitDepth \div 8) + 1, 44 + i * (bitDepth \div 8))
                      = SampleBytes(pcm[i], bitDepth)

\* C4 witness: an encoded 16-bit file with a negative sample in it.
C4_Witness ==
    /\ cpc = "encoded"
    /\ bitDepth = 16
    /\ Len(pcm) = MaxPcmLen
    /\ \E i \in 1..Len(pcm) : pcm[i] < 0
    /\ Len(wav) = 44 + 2 * Len(pcm)

\* C7: encoding N all-zero float samples at 22168 Hz / 8-bit through
\* applyDitherThenQuantize and writeWavU8Mono yields a file of exactly
\* 44 + N bytes in which every data byte is within one quantization step
\* of mid-scale 128, for every dither draw.
C7_SilenceMidScale ==
    (/\ cpc = "encoded"
     /\ bitDepth = 8
     /\ reqRate = 22168
     /\ \A i \in 1..Len(floatIn) : floatIn[i] = 0) =>
        /\ Len(wav) = 44 + Len(floatIn)
        /\ \A j \in 45..Len(wav) : wav[j] \in 127..129

\* C7 witness: an encoded all-zero buffer of full length whose dither
\* produced both 127 and 128.
C7_Witness ==
    /\ cpc = "encoded"
    /\ bitDepth = 8
    /\ reqRate = 22168
    /\ Len(floatIn) = MaxPcmLen
    /\ \A i \in 1..Len(floatIn) : floatIn[i] = 0
    /\ \E j, k \in 45..Len(wav) : wav[j] = 127 /\ wav[k] = 128

----------------------------------------------------------------------------
(* Claims about linearResampleMono, checked under SpecResample *)

\* C5: for srcRate # dstRate, linearResampleMono returns exactly
\* max(1, floor(input.length * dstRate / srcRate)) samples for every input
\* length >= 0, and never reads an input index outside 0..input.length-1.
C5_LengthAndReads ==
    (rpc = "done" /\ srcRate # dstRate) =>
        /\ Len(rsOut) = Max(1, (Len(rsInput) * dstRate) \div srcRate)
        /\ \A k \in rsReads : k >= 0 /\ k < Len(rsInput)

\* C6: linearResampleMono(buf, sr, sr) returns a buffer of the same length
\* as buf whose samples equal buf's sample for sample, for every buf
\* (the empty buffer included) and every rate sr.
C6_ResampleIdentity ==
    (rpc = "done" /\ srcRate = dstRate) =>
        /\ Len(rsOut) = Len(rsInput)
        /\ \A i \in 1..Len(rsInput) : rsOut[i] = rsInput[i]

\* C6 witness: the call has returned on equal rates with a buffer of full
\* length that holds different samples.
C6_Witness ==
    /\ rpc = "done"
    /\ srcRate = dstRate
    /\ Len(rsInput) = MaxLen
    /\ rsInput[1] # rsInput[MaxLen]
    /\ rsOut = rsInput

----------------------------------------------------------------------------
(* Claims about the offline render, checked under Spec *)

\* round(duration * sampleRate) for the event duration the engine returned
EventSamples == RoundDiv(exportRun.actualDuration * ctxSampleRate, 1000)

\* C10 as stated: the offline render returns a buffer whose length equals
\* round(duration * sampleRate) within +/-1 sample, where duration is the
\* event duration generateModularSound returns.
C10_LengthIsDuration ==
    exportRun.pc = "done" =>
        /\ exportRun.renderLength >= EventSamples - 1
        /\ exportRun.renderLength <= EventSamples + 1

\* C10 as amended: the offline render started by either export handler
\* returns a buffer whose length is exactly the sample length set in the
\* export panel when the export was started (1..65534 samples), whatever
\* the event duration the engine derives.
C10_LengthIsSampleLength ==
    exportRun.pc \in {"rendering", "done", "failed"} =>
        /\ exportRun.customSampleLength \in 1..65534
        /\ exportRun.bufferLength = exportRun.customSampleLength
        /\ exportRun.pc = "done" => exportRun.renderLength = exportRun.customSampleLength

\* C10 witness: a finished render of the longest event (0.6 s) whose
\* buffer holds the 4410 samples asked for in the export panel.
C10_Witness ==
    /\ exportRun.pc = "done"
    /\ exportRun.currentSynthParams.envelopeShape = 100
    /\ exportRun.actualDuration = 600
    /\ exportRun.renderLength = 4410
    /\ sampleLength # 4410

----------------------------------------------------------------------------
(* Claims about generateModularSound, checked under SpecEngine *)

\* C11: parameter sanitization is total: for every parameter vector (NaN,
\* +/-Infinity, missing and out-of-range fields included) the call raises
\* no error and every quantity it derives and schedules is finite, as if
\* each field had first been clamped to [0,1] with a safe default for a
\* non-finite value.
C11_SanitizationTotal ==
    gpc = "done" =>
        /\ gOut.ended = "returned"
        /\ isFinite(gOut.duration)
        /\ gOut.duration = 100000 + safeParam(gParams.envelopeShape) * 5000
        /\ allFinite(gOut.vcaTimes)
        /\ validFrames(gOut.noiseBufferLength)
        /\ isFinite(gOut.grainBufferLength) /\ gOut.grainBufferLength >= 0
        /\ allFinite(gOut.sources)
        /\ allFinite(gOut.combDelays)
        /\ isFinite(gOut.feedbackDelayTime)
        /\ isFinite(gOut.mainFeedbackAmount)
        /\ isFinite(gOut.delayFeedbackAmount)

\* C12: every feedback coefficient stays within its cap for every parameter
\* vector: the main feedback-loop gain is at most 0.4 times the sanitized
\* feedback parameter, the echo delay-line feedback gain is at most 0.7, and
\* every comb and all-pass feedback gain is strictly below 1.
C12_FeedbackCaps ==
    gpc = "done" =>
        /\ gOut.mainFeedbackAmount >= 0
        /\ gOut.mainFeedbackAmount <= 4 * safeParam(gParams.feedback)
        /\ gOut.mainFeedbackAmount < 1000
        /\ gOut.delayFeedbackAmount >= 0
        /\ gOut.delayFeedbackAmount <= 700
        /\ \A i \in DOMAIN gOut.combFeedbacks :
              gOut.combFeedbacks[i] > -1000 /\ gOut.combFeedbacks[i] < 1000
        /\ \A i \in DOMAIN gOut.allpassFeedbacks :
              gOut.allpassFeedbacks[i] > -1000 /\ gOut.allpassFeedbacks[i] < 1000

\* C12 witness: a call that returned with the feedback parameter at 1.0 and
\* an echo feedback parameter above 1, both gains at their largest.
C12_Witness ==
    /\ gpc = "done"
    /\ gOut.ended = "returned"
    /\ gParams.feedback = 100
    /\ gParams.delayFeedback = 500
    /\ gOut.mainFeedbackAmount = 300
    /\ gOut.delayFeedbackAmount = 700

\* C17: the fixed base frequency of 60 Hz is used only for category
\* 'drums'; for 'sounds' and every other category the base frequency is
\* 150 + 800 * fmAmount of the sanitized FM amount.
C17_BaseFrequencyPolicy ==
    gpc = "done" =>
        gOut.baseFreq = IF gCategory = "drums" THEN 60
                        ELSE 150 + 8 * safeParam(gParams.fmAmount)

\* C18: every frequency derived from the base frequency and applied to a
\* sound source (the base, the detuned second oscillator, the FM modulator
\* and the drum sweep target) lies within 20-2000 Hz.
C18_SourcesInRange ==
    gpc = "done" =>
        \A i \in DOMAIN gOut.sources :
            gOut.sources[i] >= 20 * 1000 /\ gOut.sources[i] <= 2000 * 1000

\* C19: for every envelope shape in [0,1] and both envelope branches the
\* VCA breakpoints are scheduled at non-decreasing times, attack end, decay
\* end, (release start,) tail end, event end, each within
\* [now, now + duration].
C19_EnvelopeOrdered ==
    (gpc = "done" /\ isFinite(gParams.envelopeShape)
       /\ gParams.envelopeShape >= 0 /\ gParams.envelopeShape <= 100) =>
        /\ \A i \in DOMAIN gOut.vcaTimes :
              gOut.vcaTimes[i] >= 0 /\ gOut.vcaTimes[i] <= gOut.duration
        /\ \A i \in 1..(Len(gOut.vcaTimes) - 1) :
              gOut.vcaTimes[i] <= gOut.vcaTimes[i + 1]

----------------------------------------------------------------------------
(* Claims about exports in flight and failed exports, checked under Spec *)

\* C13: at most one export is in flight at any time: a request made while
\* an export is active starts no second exportWav run.
C13_OneExportInFlight ==
    /\ inFlight \in {0, 1}
    /\ (inFlight = 1) <=> isExporting
    /\ (inFlight = 1) <=> (exportRun.pc = "rendering")
    /\ exportRun.refusedClick => exportRun.pc # "none"

\* C13 witness: an export is in flight and a click made meanwhile was
\* refused.
C13_Witness ==
    /\ inFlight = 1
    /\ exportRun.pc = "rendering"
    /\ exportRun.refusedClick

\* C20: when the render, the conditioning or the encoding throws during
\* exportWav, no file is downloaded and no artifact is produced, the error
\* reaches the caller and isExporting is reset to false; on every
\* completion path isExporting ends false, so the export buttons are
\* enabled again after a failed export.
C20_FailedExportCleansUp ==
    /\ exportRun.pc = "failed" =>
          /\ ~exportRun.downloaded
          /\ exportRun.wavSize = 0
          /\ exportRun.thrown
    /\ exportRun.pc = "done" => exportRun.downloaded /\ ~exportRun.thrown
    /\ exportRun.pc \in {"done", "failed"} =>
          /\ isExporting = FALSE
          /\ ~exportDisabled
          /\ inFlight = 0

\* C20 witness: an export that ran to its download right after an export
\* that failed.
C20_Witness ==
    /\ exportRun.pc = "done"
    /\ exportRun.afterFailure
    /\ exportRun.downloaded
    /\ isExporting = FALSE

----------------------------------------------------------------------------
(* Claims about validation, checked under SpecCodec *)

\* the bytes an array declares but does not hold
Truncated(bytes) == Len(bytes) < 44 \/ Len(bytes) < 44 + FieldLE(bytes, 40, 4)

\* C16: validation is never fatal: validatePTWavExport returns a report
\* {valid, errors, stats} for every byte array, arrays shorter than 44
\* bytes and headers whose data size exceeds the bytes present included;
\* valid is true exactly when errors is empty, and the file is still there,
\* unchanged, next to the report.
C16_ValidationNeverFatal ==
    /\ [](cpc \in {"validated", "checked"} =>
            /\ vReport.valid \in BOOLEAN
            /\ vReport.valid <=> (vReport.errors = <<>>)
            /\ Truncated(wav) =>
                  /\ ~vReport.valid
                  /\ vReport.errors[Len(vReport.errors)] = "Validation error")
    /\ [][cpc' = "validated" => wav' = wav]_vars

\* C16 witness: reports on an array cut inside its header and on an array
\* whose header declares more data than is present.
C16_Witness ==
    /\ cpc = "checked"
    /\ Len(wav) \in {10, 46}
    /\ Truncated(wav)
    /\ ~vReport.valid
    /\ vReport.errors # <<>>

----------------------------------------------------------------------------
(* Claims about the export paths, checked under SpecExport *)

\* the conditioning stages in the order the pipeline is described, and
\* the ones no export may skip
StageOrder ==
    <<"removeDC", "normalize", "resample", "fade", "quantize", "encode", "validate">>
MandatoryStages == {"removeDC", "normalize", "quantize", "encode", "validate"}
StagePosition(stage) == CHOOSE k \in DOMAIN StageOrder : StageOrder[k] = stage

\* C14: every export path runs DC removal, normalization with limiter,
\* resampling (only when the rates differ), the optional fade-out, dither
\* and quantization, container encoding and validation in this strict
\* order, and skips no mandatory stage.
C14_StagesInOrder ==
    xpc = "returned" =>
        /\ \A i \in 1..(Len(xStages) - 1) :
              StagePosition(xStages[i]) < StagePosition(xStages[i + 1])
        /\ \A stage \in MandatoryStages :
              \E i \in DOMAIN xStages : xStages[i] = stage

\* C15: exportPTWavV2 and exportStandardWav never modify the caller's
\* input buffer: after the call, whether it returned or threw, every
\* sample of inputFloatMono has the value it had before the call.
C15_InputUntouched ==
    (xpc \in {"returned", "threw"} /\ xFn \in {"exportPTWavV2", "exportStandardWav"}) =>
        xHeap[xInput] = xInputBefore

\* C15 witness: an export that returned after DC removal, normalization
\* and the fade wrote other samples than the caller's into its own arrays.
C15_Witness ==
    /\ xpc = "returned"
    /\ xFn = "exportPTWavV2"
    /\ Len(xHeap) = 3
    /\ xHeap[2] # xInputBefore
    /\ xHeap[3] # xHeap[2]
    /\ xHeap[xInput] = <<500000, -250000>>

----------------------------------------------------------------------------
(* Claims about the conditioning stages of exportPTWavV2, checked under    *)
(* SpecExport                                                              *)

\* the gain, in thousandths, the fade applied to the sample at idx
appliedGain(idx) ==
    (Abs(xHeap[Len(xHeap)][idx]) * 1000) \div Abs(xTrace.resampled[idx])

\* C21: the end fade of exportPTWavV2 is a fade-out.  Over the final
\* min(length, floor(targetRate * 0.01)) samples the applied gain never
\* increases with time and is lowest, at most 1 / fadeSamples, at the last
\* sample; every sample before that region is unchanged.
C21_TailFadeOut ==
    (xpc = "returned" /\ xFn = "exportPTWavV2") =>
        LET before == xTrace.resampled
            after == xHeap[Len(xHeap)]
            n == Len(before)
            fadeSamples == Min(n, 22168 \div 100)
            region == {idx \in 1..n : idx > n - fadeSamples /\ before[idx] # 0}
        IN  /\ Len(after) = n
            /\ \A idx \in 1..(n - fadeSamples) : after[idx] = before[idx]
            /\ \A idx \in region : \A later \in region :
                  idx < later => appliedGain(idx) >= appliedGain(later)
            /\ n \in region => appliedGain(n) <= 1000 \div fadeSamples

\* the input of the call minus its mean
centred ==
    LET mean == RoundDiv(sumFrom(xInputBefore, 1), Max(1, Len(xInputBefore)))
    IN  [n \in 1..Len(xInputBefore) |-> xInputBefore[n] - mean]

\* C22: removeDC returns the mean-subtracted input x passed through the
\* one-pole high-pass y[n] = a * (y[n-1] + x[n] - x[n-1]) with
\* y[-1] = x[-1] = 0, x[n-1] being the previous input sample of the filter;
\* a constant input yields an all-zero output.
C22_OnePoleHighPass ==
    (xpc = "returned" /\ xFn \in {"exportPTWavV2", "exportStandardWav"}) =>
        LET x == centred
            y == xTrace.dcFixed
        IN  /\ Len(y) = Len(x)
            /\ \A n \in 1..Len(x) :
                  LET yPrev == IF n = 1 THEN 0 ELSE y[n - 1]
                      xPrev == IF n = 1 THEN 0 ELSE x[n - 1]
                  IN  Abs(y[n] - mulX(yPrev + x[n] - xPrev)) <= 2
            /\ (\A n \in 1..Len(x) : xInputBefore[n] = xInputBefore[1])
                  => \A n \in 1..Len(y) : y[n] = 0

\* the data bytes of the file the call returned
DataBytes == {xBytes[k] : k \in 45..Len(xBytes)}

----------------------------------------------------------------------------
(* Claims about the effects and the wavetable lookups of                   *)
(* generateModularSound, checked under SpecEffects                         *)

\* the nodes a signal entering at the nodes of set reaches over edges
RECURSIVE downstream(_, _)
downstream(edges, set) ==
    LET next == set \cup {e[2] : e \in {d \in edges : d[1] \in set}}
    IN  IF next = set THEN set ELSE downstream(edges, next)

ReverbNetwork ==
    {"reverbSend", "reverbInput", "combDelays", "combGains", "combFeedbacks",
     "reverbMixer", "allpassDelays", "allpassGains", "allpassFeedbacks",
     "reverbFilter", "reverbOutput"}
DelayNetwork == {"delaySend", "delayLine", "delayFilter", "delayFeedback"}

\* C23: effects are bypassed below threshold.  With the reverb send amount at
\* or below 0.01 nothing the VCA feeds lies in the reverb network, with the
\* delay send amount at or below 0.01 nothing it feeds lies in the delay
\* network, and with both the VCA reaches the destination only through its
\* dry connection; above the threshold the send is connected.
C23_SendsBypassed ==
    (gpc = "done" /\ gOut.patching # {}) =>
        LET edges == gOut.patching
            fed == downstream(edges, {"vca"})
            wetOnly == downstream(edges \ {<<"vca", "finalMixer">>}, {"vca"})
        IN  /\ "destination" \in fed
            /\ IF reverbAmount(gParams) <= 1
               THEN fed \cap ReverbNetwork = {}
               ELSE <<"vca", "reverbSend">> \in edges /\ ReverbNetwork \subseteq fed
            /\ IF delayAmount(gParams) <= 1
               THEN fed \cap DelayNetwork = {}
               ELSE <<"vca", "delaySend">> \in edges /\ DelayNetwork \subseteq fed
            /\ (reverbAmount(gParams) <= 1 /\ delayAmount(gParams) <= 1)
                  => "destination" \notin wetOnly

\* a sound with the reverb send at the threshold and the delay send above it
C23_Witness ==
    /\ gpc = "done"
    /\ gOut.ended = "returned"
    /\ gParams.reverbAmount = 1
    /\ gParams.delayTime = 2
    /\ <<"vca", "delaySend">> \in gOut.patching
    /\ <<"vca", "reverbSend">> \notin gOut.patching

\* C24: wavetable lookup has no error conditions.  For every position and
\* phase getWavetableSample is called with, both table indices lie in 0..7
\* and the sample index in 0..2047, and the lookup returns a finite sample.
C24_LookupTotal ==
    gpc = "done" =>
        \A k \in DOMAIN gOut.wavetableLookups :
            LET r == gOut.wavetableLookups[k]
            IN  /\ r.table1 \in 0..7
                /\ r.table2 \in 0..7
                /\ r.sampleIndex \in 0..2047
                /\ r.ended = "sample"

\* every parameter of the call is a number in [0,1]
InUnitRange == \A f \in DOMAIN gParams : gParams[f] \in 0..100

\* C28: every delay line is bounded by its allocation.  For every parameter
\* vector in [0,1] the delay time set on each delay element is greater
\* than 0 and no larger than the maximum delay the element was created with.
C28_DelaysWithinAllocation ==
    (gpc = "done" /\ InUnitRange) =>
        \A k \in DOMAIN gOut.delayElements :
            /\ gOut.delayElements[k].delayTime > 0
            /\ gOut.delayElements[k].delayTime <= gOut.delayElements[k].maxDelayTime

----------------------------------------------------------------------------
(* Claims about handleRandomizePreset, checked under SpecRandomize *)

\* the vector handleRandomizePreset installed and the id of its preset
randomized == timer.installed.synthParams
randomizedId == DEMO_PRESETS[timer.preset].id

\* C25: randomize yields a complete parameter vector.  After
\* handleRandomizePreset, for any preset and draws, every field of
\* SynthParams, basic, effects and experimental alike, is defined in the
\* installed parameters and is a number in [0,1].
C25_CompleteVector ==
    timer.by = "handleRandomizePreset" =>
        /\ synthParams = randomized
        /\ DOMAIN synthParams = DOMAIN defaultParams
        /\ \A field \in DOMAIN synthParams : synthParams[field] \in 0..100

\* C26: the vector handleRandomizePreset installs satisfies every safety
\* interdependency at once: resonance > 0.6 implies feedback <= 0.3;
\* feedback > 0.4 implies chaosLevel <= 0.2 and resonance <= 0.6;
\* chaosLevel > 0.3 implies feedback <= 0.2, ringMod <= 0.4 and
\* fmAmount <= 0.5; fmAmount > 0.6 implies ringMod <= 0.3 and
\* chaosLevel <= 0.2; and the kick, hihat and snare limits hold for the
\* presets whose id includes those words.
C26_InterdependenciesHold ==
    timer.by = "handleRandomizePreset" =>
        LET v == randomized
        IN  /\ v.resonance > 60 => v.feedback <= 30
            /\ v.feedback > 40 => (v.chaosLevel <= 20 /\ v.resonance <= 60)
            /\ v.chaosLevel > 30 => (v.feedback <= 20 /\ v.ringMod <= 40 /\ v.fmAmount <= 50)
            /\ v.fmAmount > 60 => (v.ringMod <= 30 /\ v.chaosLevel <= 20)
            /\ randomizedId = "kick-1"
                  => (v.fmAmount <= 40 /\ v.envelopeShape >= 30 /\ v.chaosLevel <= 20)
            /\ randomizedId = "hihat-1"
                  => (v.noiseLayer >= 40 /\ v.envelopeShape <= 40 /\ v.feedback <= 30)
            /\ randomizedId = "snare-1" => (v.chaosLevel <= 30 /\ v.feedback <= 40)

\* a randomized snare whose high resonance cut the feedback to 0.3
C26_Witness ==
    /\ timer.by = "handleRandomizePreset"
    /\ randomizedId = "snare-1"
    /\ randomized.resonance > 60
    /\ randomized.feedback = 30

----------------------------------------------------------------------------
(* Claims about the auto-trigger and the presets, checked under SpecSound *)

\* C27: after handleRandomizePreset or handleAiGenerate installs new
\* parameters, the sound its timer triggers is synthesized from the newly
\* installed parameters and preset, not from those current before the call.
C27_AutoTriggerHearsResult ==
    lastAuto.by # "none" =>
        /\ lastAuto.synthParams = lastAuto.installed.synthParams
        /\ lastAuto.selectedPreset = lastAuto.installed.selectedPreset

\* C30: presets are read-only.  No sequence of UI actions changes any field
\* of any preset's stored parameter snapshot.
C30_PresetsReadOnly ==
    presetStore = [i \in 1..Len(DEMO_PRESETS) |-> DEMO_PRESETS[i].parameters]

\* an AI generation that adjusted a copy of the snare preset, tweaked since
C30_Witness ==
    /\ lastAuto.by = "handleAiGenerate"
    /\ selectedPreset = 2
    /\ synthParams.noiseLayer = 100
    /\ synthParams.envelopeShape = 0
    /\ presetStore[2].noiseLayer = 80

====
